---- MODULE Spec2Model ----
(***************************************************************************)
(* Financial metrics and diagnosis engine of the stock analysis backend:   *)
(* FinancialCalculator (stocks/analytics.py), the fetch_data management    *)
(* command with its analysis pass, PortfolioAnalyzer                       *)
(* (stocks/portfolio_analytics.py), the portfolio mutations of the GraphQL *)
(* schema (config/schema.py) and the fetch_all batch command.              *)
(*                                                                         *)
(* Numbers.  Python floats are modelled as exact real numbers of the form  *)
(*        n/d + 100 * fifthroot(bn/bd)                                     *)
(* with n/d a rational in lowest terms (d > 0) and bn/bd >= 0 a rational   *)
(* in lowest terms.  bn = 0 is an ordinary rational.  The root part is     *)
(* produced only by calculate_implied_revenue_growth.  None is a value of  *)
(* its own, and d = 0 marks the result of a division by zero, which in     *)
(* Python raises ZeroDivisionError.  Rounding of floats is not modelled.   *)
(***************************************************************************)
EXTENDS Integers, Sequences, FiniteSets, TLC

VARIABLES
    \* ---- analysis pass of fetch_data.Command.handle ----
    pc,                 \* position in the analysis pass
    metrics_input,      \* the FinancialMetricsInput built from the two statements
    f_score, f_reasons, z_score, accruals, gross_prof, roiic,
    implied_g_fcf, implied_g_rev, actual_g_rev, gap,
    status, is_good_buy, ai_summary_parts,
    has_fcf, z_zone, state, expectation, risk_level, risk_factors,
    final_label,
    raised,             \* an exception escaped the analysis pass
    analysis_result,    \* the AnalysisResult row written by update_or_create
    \* ---- the part of fetch_data.Command.handle before the analysis pass ----
    provider,           \* what the data provider answers for the ticker
    saved_statements,   \* the FinancialStatement rows saved by this run, oldest first
    first_run,          \* the output of an earlier pass on the same input, if any
    \* ---- one direct call of a FinancialCalculator static method, or of ----
    \* ---- PortfolioAnalyzer.analyze                                    ----
    call,
    \* ---- portfolio tables ----
    portfolio_items,    \* the PortfolioItem row of one portfolio for each stock, if any
    stock_analysis,     \* the latest AnalysisResult row of each stock, if any
    portfolios,         \* the Portfolio table: the owner_id of each row
    item_rows,          \* the PortfolioItem table of all portfolios, as rows
    \* ---- one run of the fetch_all management command ----
    batch_pc,           \* position of Command.handle
    futures,            \* the process_ticker call submitted for each ticker
    fetch_logs,         \* the StockFetchLog table, by record id
    results,            \* the SUCCESS / FAILURE tallies of the run
    stock_rows          \* the codes of the Stock rows when process_ticker looks one up

passVars == <<pc, metrics_input, f_score, f_reasons, z_score, accruals, gross_prof,
              roiic, implied_g_fcf, implied_g_rev, actual_g_rev, gap, status,
              is_good_buy, ai_summary_parts, has_fcf, z_zone, state, expectation,
              risk_level, risk_factors, final_label, raised, analysis_result,
              provider, saved_statements, first_run>>

fetchVars == <<provider, saved_statements, first_run>>

portfolioVars == <<portfolio_items, stock_analysis, portfolios, item_rows>>

batchVars == <<batch_pc, futures, fetch_logs, results, stock_rows>>

vars == <<passVars, call, portfolioVars, batchVars>>

-----------------------------------------------------------------------------
(* Exact arithmetic *)

AbsInt(k) == IF k < 0 THEN -k ELSE k

RECURSIVE GCD(_, _)
GCD(a, b) == IF b = 0 THEN a ELSE GCD(b, a % b)

None == [isNone |-> TRUE, n |-> 0, d |-> 1, bn |-> 0, bd |-> 1]

\* The value a division by zero would have produced: Python raises instead.
ZeroDivisionError == [isNone |-> FALSE, n |-> 0, d |-> 0, bn |-> 0, bd |-> 1]

\* The rational n/d (d # 0) in lowest terms with a positive denominator.
Rat(n, d) ==
    LET g == GCD(AbsInt(n), AbsInt(d))
        s == IF d < 0 THEN -1 ELSE 1
    IN  [isNone |-> FALSE, n |-> s * (n \div g), d |-> s * (d \div g), bn |-> 0, bd |-> 1]

Num(k) == Rat(k, 1)

IsNone(x) == x.isNone
IsError(x) == ~x.isNone /\ x.d = 0
IsZero(x) == ~x.isNone /\ x.d # 0 /\ x.n = 0 /\ x.bn = 0

\* Python truth value of an Optional[float]: None and 0.0 are falsy.
Truthy(x) == ~IsNone(x) /\ ~IsZero(x)

Add(x, y) ==
    IF IsError(x) \/ IsError(y) THEN ZeroDivisionError
    ELSE Rat(x.n * y.d + y.n * x.d, x.d * y.d)

\* x - y for a rational y; the root part of x, if any, is carried over.
Sub(x, y) ==
    IF IsError(x) \/ IsError(y) THEN ZeroDivisionError
    ELSE [Rat(x.n * y.d - y.n * x.d, x.d * y.d) EXCEPT !.bn = x.bn, !.bd = x.bd]

Mul(x, y) ==
    IF IsError(x) \/ IsError(y) THEN ZeroDivisionError
    ELSE Rat(x.n * y.n, x.d * y.d)

\* Python's x / y on floats: raises ZeroDivisionError when y == 0.
Div(x, y) ==
    IF IsError(x) \/ IsError(y) \/ y.n = 0 THEN ZeroDivisionError
    ELSE Rat(x.n * y.d, x.d * y.n)

Abs(x) == IF IsError(x) THEN x ELSE Rat(AbsInt(x.n), x.d)

\* a/b < c/d for a, c >= 0 and b, d > 0, by Euclid's algorithm (no products).
RECURSIVE LtFrac(_, _, _, _)
LtFrac(a, b, c, d) ==
    LET qa == a \div b
        qc == c \div d
        ra == a % b
        rc == c % d
    IN  IF qa # qc THEN qa < qc
        ELSE IF rc = 0 THEN FALSE
        ELSE IF ra = 0 THEN TRUE
        ELSE LtFrac(d, rc, b, ra)

Pow5(k) == k * k * k * k * k

\* x < y and x > y for numbers without a root part.
RatLt(x, y) == x.n * y.d < y.n * x.d

\* fifthroot(bn/bd) < r and fifthroot(bn/bd) > r for a rational r.
RootLt(x, r) == r.n > 0 /\ LtFrac(x.bn, x.bd, Pow5(r.n), Pow5(r.d))
RootGt(x, r) == r.n < 0 \/ LtFrac(Pow5(r.n), Pow5(r.d), x.bn, x.bd)

\* Comparison of two floats; y never has a root part (a literal or a ratio).
Lt(x, y) ==
    IF x.bn = 0 THEN RatLt(x, y)
    ELSE RootLt(x, Div(Sub(y, [x EXCEPT !.bn = 0, !.bd = 1]), Num(100)))

Gt(x, y) ==
    IF x.bn = 0 THEN RatLt(y, x)
    ELSE RootGt(x, Div(Sub(y, [x EXCEPT !.bn = 0, !.bd = 1]), Num(100)))

Le(x, y) == ~Gt(x, y)

\* 100 * (b ** (1/5)) - 100 for a rational b >= 0.
RootPercent(b) == [Rat(-100, 1) EXCEPT !.bn = b.n, !.bd = b.d]

-----------------------------------------------------------------------------
(* FinancialCalculator: ratios.  `data` is a FinancialMetricsInput: a record *)
(* of numbers (the prior-period fields may be None) and a sector string,     *)
(* held as its sequence of characters.                                       *)

\* Safety & Risk

calculate_altman_z_score(data) ==
    IF ~Truthy(data.total_assets) \/ ~Truthy(data.current_liabilities) THEN None
    ELSE
        LET working_capital == Sub(data.current_assets, data.current_liabilities)
            total_liabilities == Add(data.long_term_debt, data.current_liabilities)
            A == Div(working_capital, data.total_assets)
            B == Div(data.retained_earnings, data.total_assets)
            C == Div(data.ebit, data.total_assets)
            D == IF Gt(total_liabilities, Num(0))
                 THEN Div(data.market_cap, total_liabilities)
                 ELSE Num(0)
            E == Div(data.revenue, data.total_assets)
        IN  Add(Add(Add(Add(Mul(Rat(12, 10), A), Mul(Rat(14, 10), B)),
                        Mul(Rat(33, 10), C)), Mul(Rat(6, 10), D)), Mul(Num(1), E))

\* classify_altman_zone with the boundaries taken inclusively (<= for <).
classify_altman_zone_Inclusive(z) ==
    IF Le(z, Rat(181, 100)) THEN "distress"
    ELSE IF Le(z, Rat(299, 100)) THEN "grey"
    ELSE "safe"

classify_altman_zone(z) ==
    IF Lt(z, Rat(181, 100)) THEN "distress"
    ELSE IF Lt(z, Rat(299, 100)) THEN "grey"
    ELSE "safe"

calculate_interest_coverage(data) ==
    LET interest == Abs(data.interest_expense)
    IN  IF IsZero(interest) THEN None ELSE Div(data.ebit, interest)

\* Quality of Earnings

calculate_accruals_ratio(data) ==
    IF ~Truthy(data.total_assets) THEN Num(0)
    ELSE Div(Sub(data.net_income, data.operating_cf), data.total_assets)

calculate_earnings_quality(data) ==
    IF IsZero(data.net_income) THEN None
    ELSE Div(data.operating_cf, data.net_income)

calculate_delta_noa(data) ==
    IF IsNone(data.prev_current_assets) \/ IsNone(data.prev_current_liabilities) THEN None
    ELSE
        LET noa == Sub(data.current_assets, data.current_liabilities)
            prev_noa == Sub(data.prev_current_assets, data.prev_current_liabilities)
            delta_noa == Sub(noa, prev_noa)
        IN  IF Truthy(data.total_assets) THEN Div(delta_noa, data.total_assets) ELSE None

calculate_inventory_quality(data) ==
    IF \/ IsNone(data.prev_inventory)
       \/ IsZero(data.prev_inventory)
       \/ IsNone(data.prev_revenue)
       \/ IsZero(data.prev_revenue)
    THEN None
    ELSE
        LET inv_growth == Div(Sub(data.inventory, data.prev_inventory), data.prev_inventory)
            rev_growth == Div(Sub(data.revenue, data.prev_revenue), data.prev_revenue)
        IN  Sub(inv_growth, rev_growth)

\* Quality of Growth & Structure

calculate_gross_profitability(data) ==
    IF ~Truthy(data.total_assets) THEN Num(0)
    ELSE Div(data.operating_income, data.total_assets)

calculate_cbop(data) ==
    IF ~Truthy(data.total_assets) THEN Num(0)
    ELSE Div(data.operating_cf, data.total_assets)

calculate_roiic(data) ==
    IF IsNone(data.prev_operating_income) \/ IsNone(data.prev_total_assets) THEN None
    ELSE
        LET delta_op_income == Sub(data.operating_income, data.prev_operating_income)
            delta_invested_capital == Sub(data.total_assets, data.prev_total_assets)
        IN  IF Le(delta_invested_capital, Num(0)) THEN None
            ELSE Div(delta_op_income, delta_invested_capital)

calculate_reinvestment_rate(data) ==
    IF IsZero(data.operating_cf) THEN None
    ELSE
        LET capex == Abs(data.capex)
            depreciation == Abs(data.depreciation)
        IN  Div(Sub(capex, depreciation), data.operating_cf)

\* The dict returned by calculate_dupont_breakdown; `empty` is the {} result.
calculate_dupont_breakdown(data) ==
    IF ~Truthy(data.total_equity) \/ ~Truthy(data.total_assets) \/ ~Truthy(data.revenue)
    THEN [empty |-> TRUE, net_profit_margin |-> None, asset_turnover |-> None,
          financial_leverage |-> None, roe |-> None]
    ELSE [empty |-> FALSE,
          net_profit_margin |-> Div(data.net_income, data.revenue),
          asset_turnover |-> Div(data.revenue, data.total_assets),
          financial_leverage |-> Div(data.total_assets, data.total_equity),
          roe |-> Div(data.net_income, data.total_equity)]

\* Expectation

risk_free_rate == Rat(1, 100)
market_risk_premium == Rat(6, 100)

calculate_implied_growth_rate(data) ==
    IF Le(data.market_cap, Num(0)) THEN None
    ELSE
        LET cost_of_equity == Add(risk_free_rate, Mul(data.beta, market_risk_premium))
            fcf == Add(data.operating_cf, data.investing_cf)
        IN  IF Le(fcf, Num(0)) THEN None
            ELSE Mul(Sub(cost_of_equity, Div(fcf, data.market_cap)), Num(100))

discount_rate == Rat(8, 100)

calculate_equity_duration_proxy(data) ==
    LET implied_g == calculate_implied_growth_rate(data)
    IN  IF IsNone(implied_g) THEN None
        ELSE
            LET g_decimal == Div(implied_g, Num(100))
            IN  IF Le(discount_rate, g_decimal) THEN Num(50)
                ELSE Div(Num(1), Sub(discount_rate, g_decimal))

\* Legacy / Composite

\* Python's ["text"] if cond else [] and 1 if cond else 0.
Reason(cond, text) == IF cond THEN <<text>> ELSE <<>>
Point(cond) == IF cond THEN 1 ELSE 0

\* The (score, reasons) tuple of calculate_piotroski_f_score, or the exception
\* raised by one of its divisions.  Reasons are given in English.
calculate_piotroski_f_score(data) ==
    IF IsNone(data.prev_total_assets)
    THEN [raised |-> FALSE, score |-> 0, reasons |-> <<"insufficient data">>]
    ELSE
        LET roa == IF Truthy(data.total_assets)
                   THEN Div(data.net_income, data.total_assets) ELSE Num(0)
            prev_roa == IF Truthy(data.prev_total_assets)
                        THEN Div(data.prev_net_income, data.prev_total_assets)
                        ELSE Num(0)
            lev == IF Truthy(data.total_assets)
                   THEN Div(data.long_term_debt, data.total_assets) ELSE Num(0)
            prev_lev == IF ~IsNone(data.prev_long_term_debt)
                        THEN Div(data.prev_long_term_debt, data.prev_total_assets)
                        ELSE Num(0)
            curr_ratio == IF Truthy(data.current_liabilities)
                          THEN Div(data.current_assets, data.current_liabilities)
                          ELSE Num(0)
            prev_curr_ratio == IF Truthy(data.prev_current_liabilities)
                               THEN Div(data.prev_current_assets,
                                        data.prev_current_liabilities)
                               ELSE Num(0)
            margin == IF Truthy(data.revenue)
                      THEN Div(data.operating_income, data.revenue) ELSE Num(0)
            prev_margin == IF Truthy(data.prev_revenue)
                           THEN Div(data.prev_operating_income, data.prev_revenue)
                           ELSE Num(0)
            turnover == IF Truthy(data.total_assets)
                        THEN Div(data.revenue, data.total_assets) ELSE Num(0)
            prev_turnover == IF Truthy(data.prev_total_assets)
                             THEN Div(data.prev_revenue, data.prev_total_assets)
                             ELSE Num(0)
        IN  IF \E q \in {roa, prev_roa, lev, prev_lev, curr_ratio, prev_curr_ratio,
                         margin, prev_margin, turnover, prev_turnover} : IsError(q)
            THEN [raised |-> TRUE, score |-> 0, reasons |-> <<>>]
            ELSE
                LET c1 == Gt(data.net_income, Num(0))
                    c2 == Gt(data.operating_cf, Num(0))
                    c3 == Gt(roa, prev_roa)
                    c4 == Gt(data.operating_cf, data.net_income)
                    c5 == Le(lev, prev_lev)
                    c6 == Gt(curr_ratio, prev_curr_ratio)
                    c8 == Gt(margin, prev_margin)
                    c9 == Gt(turnover, prev_turnover)
                IN  [raised |-> FALSE,
                     score |-> Point(c1) + Point(c2) + Point(c3) + Point(c4) + Point(c5)
                               + Point(c6) + 1 + Point(c8) + Point(c9),
                     reasons |-> Reason(c1, "net income positive")
                                 \o Reason(c2, "operating CF positive")
                                 \o Reason(c3, "ROA improved")
                                 \o Reason(c4, "CF > net income")
                                 \o Reason(c5, "leverage improved")
                                 \o Reason(c6, "current ratio improved")
                                 \o <<"no dilution (assumed)">>
                                 \o Reason(c8, "margin improved")
                                 \o Reason(c9, "turnover improved")]

\* The sector -> mature FCF margin table, in the dict's insertion order.
sector_margins == <<
    [key |-> <<"I", "n", "f", "o", "r", "m", "a", "t", "i", "o", "n", " ", "&", " ",
               "C", "o", "m", "m", "u", "n", "i", "c", "a", "t", "i", "o", "n">>,
     margin |-> Rat(20, 100)],
    [key |-> <<"P", "h", "a", "r", "m", "a", "c", "e", "u", "t", "i", "c", "a", "l">>,
     margin |-> Rat(20, 100)],
    [key |-> <<"S", "e", "r", "v", "i", "c", "e", "s">>,
     margin |-> Rat(10, 100)],
    [key |-> <<"E", "l", "e", "c", "t", "r", "i", "c", " ",
               "A", "p", "p", "l", "i", "a", "n", "c", "e", "s">>,
     margin |-> Rat(8, 100)],
    [key |-> <<"T", "r", "a", "n", "s", "p", "o", "r", "t", "a", "t", "i", "o", "n", " ",
               "E", "q", "u", "i", "p", "m", "e", "n", "t">>,
     margin |-> Rat(6, 100)],
    [key |-> <<"R", "e", "t", "a", "i", "l", " ", "T", "r", "a", "d", "e">>,
     margin |-> Rat(4, 100)],
    [key |-> <<"W", "h", "o", "l", "e", "s", "a", "l", "e", " ", "T", "r", "a", "d", "e">>,
     margin |-> Rat(3, 100)],
    [key |-> <<"C", "o", "n", "s", "t", "r", "u", "c", "t", "i", "o", "n">>,
     margin |-> Rat(5, 100)],
    [key |-> <<"B", "a", "n", "k", "s">>,
     margin |-> Rat(15, 100)],
    [key |-> <<"R", "e", "a", "l", " ", "E", "s", "t", "a", "t", "e">>,
     margin |-> Rat(12, 100)] >>

\* Python's `key in sector` on strings: key is a substring of sector.
Contains(key, sector) ==
    \E i \in 1..(Len(sector) - Len(key) + 1) : SubSeq(sector, i, i + Len(key) - 1) = key

get_target_margin(sector) ==
    LET hits == {i \in 1..Len(sector_margins) : Contains(sector_margins[i].key, sector)}
    IN  IF hits = {} THEN Rat(10, 100)
        ELSE sector_margins[CHOOSE i \in hits : \A j \in hits : i <= j].margin

calculate_implied_revenue_growth(input_data) ==
    LET market_cap == input_data.market_cap
        revenue == input_data.revenue
    IN  IF Le(revenue, Num(0)) \/ Le(market_cap, Num(0)) THEN None
        ELSE
            LET psr == Div(market_cap, revenue)
                target_margin == get_target_margin(input_data.sector)
                r == Rat(7, 100)
                g_term == Rat(2, 100)
                base_val == Div(Mul(psr, Sub(r, g_term)), target_margin)
            IN  IF IsError(base_val) THEN None      \* the bare except
                ELSE IF Lt(base_val, Num(0)) THEN Num(0)
                ELSE RootPercent(base_val)

calculate_actual_revenue_growth(input_data) ==
    IF IsNone(input_data.prev_revenue) \/ IsZero(input_data.prev_revenue) THEN None
    ELSE
        LET growth == Div(Sub(input_data.revenue, input_data.prev_revenue),
                          input_data.prev_revenue)
        IN  Mul(growth, Num(100))

calculate_reality_gap(implied_growth, actual_growth) ==
    IF IsNone(implied_growth) \/ IsNone(actual_growth) THEN None
    ELSE Sub(implied_growth, actual_growth)

-----------------------------------------------------------------------------
(* FinancialCalculator: the three diagnosis layers *)

\* diagnose_corporate_state with the healthy threshold at f_score > 5.
diagnose_corporate_state_StrictFive(fs, zone, fcf) ==
    IF zone = "distress" THEN "Financial Distress"
    ELSE IF fs <= 3 THEN "Deteriorating"
    ELSE IF fs > 5 THEN (IF fcf THEN "Cash Generator" ELSE "High Growth")
    ELSE "Neutral"

\* diagnose_corporate_state with the f_score test before the zone test.
diagnose_corporate_state_ScoreFirst(fs, zone, fcf) ==
    IF fs <= 3 THEN "Deteriorating"
    ELSE IF zone = "distress" THEN "Financial Distress"
    ELSE IF fs >= 5 /\ fcf THEN "Cash Generator"
    ELSE IF fs >= 5 /\ ~fcf THEN "High Growth"
    ELSE "Neutral"

diagnose_corporate_state(fs, zone, fcf) ==
    IF zone = "distress" THEN "Financial Distress"
    ELSE IF fs <= 3 THEN "Deteriorating"
    ELSE IF fs >= 5 THEN (IF fcf THEN "Cash Generator" ELSE "High Growth")
    ELSE "Neutral"

\* diagnose_expectation with the gap rules tried before the Single Engine rule.
diagnose_expectation_GapFirst(g, implied_rev_growth, fcf) ==
    IF ~IsNone(g) /\ Gt(g, Num(20)) THEN "Overheated"
    ELSE IF ~IsNone(g) /\ Lt(g, Num(-10)) THEN "Underestimated"
    ELSE IF ~IsNone(g) /\ Gt(g, Num(10)) THEN "Optimistic"
    ELSE IF ~fcf /\ ~IsNone(implied_rev_growth) /\ Gt(implied_rev_growth, Num(25))
    THEN "Single Engine"
    ELSE "Reasonable"

diagnose_expectation(g, implied_rev_growth, fcf) ==
    IF ~fcf /\ ~IsNone(implied_rev_growth) /\ Gt(implied_rev_growth, Num(25))
    THEN "Single Engine"
    ELSE IF ~IsNone(g) /\ Gt(g, Num(20)) THEN "Overheated"
    ELSE IF ~IsNone(g) /\ Lt(g, Num(-10)) THEN "Underestimated"
    ELSE IF ~IsNone(g) /\ Gt(g, Num(10)) THEN "Optimistic"
    ELSE "Reasonable"

\* assess_risks without the `if level != "Critical"` guard of the second check.
assess_risks_Downgrade(zone, fs, accr) ==
    LET risks1 == IF zone = "distress" THEN <<"Bankruptcy Risk">> ELSE <<>>
        level1 == IF zone = "distress" THEN "Critical" ELSE "Low"
        risks2 == IF fs <= 3 THEN Append(risks1, "Weak Fundamentals") ELSE risks1
        level2 == IF fs <= 3 THEN "High" ELSE level1
        quality == ~IsNone(accr) /\ Gt(accr, Rat(15, 100))
        risks3 == IF quality THEN Append(risks2, "Low Earnings Quality") ELSE risks2
        level3 == IF quality /\ level2 = "Low" THEN "Medium" ELSE level2
    IN  [level |-> level3, risks |-> risks3]

\* The (level, risks) tuple of assess_risks, following its three successive ifs.
assess_risks(zone, fs, accr) ==
    LET risks1 == IF zone = "distress" THEN <<"Bankruptcy Risk">> ELSE <<>>
        level1 == IF zone = "distress" THEN "Critical" ELSE "Low"
        risks2 == IF fs <= 3 THEN Append(risks1, "Weak Fundamentals") ELSE risks1
        level2 == IF fs <= 3 /\ level1 # "Critical" THEN "High" ELSE level1
        quality == ~IsNone(accr) /\ Gt(accr, Rat(15, 100))
        risks3 == IF quality THEN Append(risks2, "Low Earnings Quality") ELSE risks2
        level3 == IF quality /\ level2 = "Low" THEN "Medium" ELSE level2
    IN  [level |-> level3, risks |-> risks3]

-----------------------------------------------------------------------------
(* Inputs.  Amounts are in one arbitrary currency unit. *)

Unknown == <<"U", "n", "k", "n", "o", "w", "n">>
Pharmaceuticals ==
    <<"P", "h", "a", "r", "m", "a", "c", "e", "u", "t", "i", "c", "a", "l", "s">>

\* Revenue takes the values 0, 40, ..., 40 * MaxRevenueSteps and beta the values
\* 1 .. MaxBeta.
MaxRevenueSteps == 3
MaxBeta == 2

\* The FinancialMetricsInput records handed to the analysis pass.  get_val returns
\* a float for every field, a statement with total_assets == 0 is never saved, and
\* `info.get("beta", 1.0) or 1.0` is never 0, so: no field is None and neither
\* total_assets nor prev_total_assets is 0.
PassInputs ==
    [revenue : {Num(40 * k) : k \in 0..MaxRevenueSteps},
     operating_income : {Num(5), Num(15)},
     net_income : {Num(-5), Num(10)},
     ebit : {Num(-20), Num(0)},
     interest_expense : {Num(1)},
     depreciation : {Num(2)},
     total_assets : {Num(100)},
     total_equity : {Num(40)},
     current_assets : {Num(50), Num(100)},
     current_liabilities : {Num(0), Num(50)},
     inventory : {Num(10)},
     retained_earnings : {Num(0)},
     long_term_debt : {Num(0), Num(50)},
     operating_cf : {Num(-10), Num(20)},
     investing_cf : {Num(-30), Num(-5)},
     capex : {Num(5)},
     stock_price : {Num(1)},
     market_cap : {Num(0), Num(160), Num(800)},
     beta : {Num(b) : b \in 1..MaxBeta},
     prev_revenue : {Num(0), Num(100)},
     prev_operating_income : {Num(10)},
     prev_net_income : {Num(5)},
     prev_total_assets : {Num(100)},
     prev_current_assets : {Num(75)},
     prev_current_liabilities : {Num(50)},
     prev_inventory : {Num(10)},
     prev_long_term_debt : {Num(25)},
     sector : {Unknown, Pharmaceuticals}]

-----------------------------------------------------------------------------
(* AnalysisResult tag columns, the portfolio tables and PortfolioAnalyzer    *)
(* (stocks/portfolio_analytics.py).  Quantities and prices are whole numbers *)
(* of shares and of currency units.                                          *)

\* The eleven character-tag columns of AnalysisResult and their declared default,
\* which a row keeps when update_or_create is given no value for them.
Tags ==
    {"tag_safety_shield", "tag_cash_cow", "tag_quality_growth", "tag_institutional",
     "tag_single_engine", "tag_high_volatility", "tag_silent_improver", "tag_turnaround",
     "tag_zombie", "tag_accounting_risk", "tag_fragile"}

TagDefaults == [t \in Tags |-> FALSE]

\* The Stock rows, in the order of their codes (PortfolioItem.Meta.ordering).
StockOrder == <<"1301", "7203", "9984">>
StockCodes == {StockOrder[i] : i \in DOMAIN StockOrder}

NoItem == [held |-> FALSE]
NoAnalysis == [exists |-> FALSE]

\* An AnalysisResult row as PortfolioAnalyzer reads it: stock_price and the tags.
AnalysisRow(price, tags) ==
    [exists |-> TRUE, stock_price |-> price] @@ [t \in Tags |-> t \in tags]

\* No PortfolioItem and no AnalysisResult row.
PortfolioTablesEmpty ==
    /\ portfolio_items = [c \in StockCodes |-> NoItem]
    /\ stock_analysis = [c \in StockCodes |-> NoAnalysis]
    /\ portfolios = {}
    /\ item_rows = {}

\* NARRATIVES, in the order of the dictionary.
NARRATIVES ==
    << [key |-> "LowRate",
        tags |-> <<"tag_zombie", "tag_high_volatility", "tag_accounting_risk">>,
        weight |-> Rat(12, 10)],
       [key |-> "HighGrowth",
        tags |-> <<"tag_single_engine", "tag_fragile">>,
        weight |-> Rat(15, 10)],
       [key |-> "EconomicExpansion",
        tags |-> <<"tag_turnaround", "tag_silent_improver">>,
        weight |-> Num(1)],
       [key |-> "QualityPreference",
        tags |-> <<"tag_quality_growth", "tag_institutional", "tag_cash_cow">>,
        weight |-> Rat(5, 10)] >>

Categories == {"Safety", "Quality", "Speculative", "Risk", "Neutral"}

RECURSIVE SumSeq(_)
SumSeq(s) == IF s = <<>> THEN Num(0) ELSE Add(Head(s), SumSeq(Tail(s)))

\* The loop over the items: one holding per item whose stock has an analysis.
\* items maps each stock code to the portfolio's item for it.
RECURSIVE collect_holdings(_, _, _)
collect_holdings(items, analyses, i) ==
    IF i > Len(StockOrder) THEN <<>>
    ELSE
        LET code == StockOrder[i]
            item == items[code]
            analysis == analyses[code]
            rest == collect_holdings(items, analyses, i + 1)
        IN  IF ~item.held \/ ~analysis.exists THEN rest
            ELSE
                LET current_price == IF Truthy(analysis.stock_price)
                                     THEN analysis.stock_price ELSE Num(0)
                    quantity == Num(item.quantity)
                    market_value == Mul(current_price, quantity)
                IN  << [code |-> code, quantity |-> quantity,
                        market_value |-> market_value, analysis |-> analysis] >> \o rest

\* The category test with the Safety branch ahead of the Risk branch.
assigned_cat_SafetyFirst(analysis) ==
    IF analysis.tag_safety_shield \/ analysis.tag_institutional \/ analysis.tag_cash_cow
    THEN "Safety"
    ELSE IF analysis.tag_zombie \/ analysis.tag_fragile \/ analysis.tag_accounting_risk
    THEN "Risk"
    ELSE IF analysis.tag_single_engine \/ analysis.tag_high_volatility
            \/ analysis.tag_turnaround
    THEN "Speculative"
    ELSE IF analysis.tag_quality_growth THEN "Quality"
    ELSE "Neutral"

\* The category of one holding.
assigned_cat(analysis) ==
    IF analysis.tag_zombie \/ analysis.tag_fragile \/ analysis.tag_accounting_risk
    THEN "Risk"
    ELSE IF analysis.tag_single_engine \/ analysis.tag_high_volatility
            \/ analysis.tag_turnaround
    THEN "Speculative"
    ELSE IF analysis.tag_quality_growth THEN "Quality"
    ELSE IF analysis.tag_safety_shield \/ analysis.tag_institutional
            \/ analysis.tag_cash_cow
    THEN "Safety"
    ELSE "Neutral"

\* The weight of holding h in percent.
holding_weight(h, total_value) == Mul(Div(h.market_value, total_value), Num(100))

\* The sum of the weights of the given holdings.
SumWeights(holdings, total_value) ==
    SumSeq([i \in DOMAIN holdings |-> holding_weight(holdings[i], total_value)])

tag_exposure_of(holdings, total_value) ==
    [t \in Tags |->
        LET HasTag(h) == h.analysis[t]
        IN  SumWeights(SelectSeq(holdings, HasTag), total_value)]

\* Category totals that count a holding under every category one of its tags
\* belongs to.
category_exposure_of_EveryMatch(holdings, total_value) ==
    [c \in Categories |->
        LET a(h) == h.analysis
            InCat(h) ==
                CASE c = "Risk" ->
                         a(h).tag_zombie \/ a(h).tag_fragile \/ a(h).tag_accounting_risk
                  [] c = "Speculative" ->
                         a(h).tag_single_engine \/ a(h).tag_high_volatility
                         \/ a(h).tag_turnaround
                  [] c = "Quality" -> a(h).tag_quality_growth
                  [] c = "Safety" ->
                         a(h).tag_safety_shield \/ a(h).tag_institutional
                         \/ a(h).tag_cash_cow
                  [] OTHER -> assigned_cat(a(h)) = "Neutral"
        IN  SumWeights(SelectSeq(holdings, InCat), total_value)]

category_exposure_of(holdings, total_value) ==
    [c \in Categories |->
        LET InCat(h) == assigned_cat(h.analysis) = c
        IN  SumWeights(SelectSeq(holdings, InCat), total_value)]

\* min(100.0, dependency_score * weight) for one narrative.
final_dependency(meta, tag_exposure) ==
    LET dependency_score == SumSeq([i \in DOMAIN meta.tags |-> tag_exposure[meta.tags[i]]])
        weighted == Mul(dependency_score, meta.weight)
    IN  IF Lt(Num(100), weighted) THEN Num(100) ELSE weighted

\* list.sort(key=dependency_score, reverse=True): a stable sort, so x goes
\* behind every entry whose score is not below its own.
RECURSIVE InsertDescending(_, _)
InsertDescending(sorted, x) ==
    IF sorted = <<>> THEN <<x>>
    ELSE IF Lt(Head(sorted).dependency_score, x.dependency_score)
    THEN <<x>> \o sorted
    ELSE <<Head(sorted)>> \o InsertDescending(Tail(sorted), x)

RECURSIVE SortDescending(_, _)
SortDescending(list, n) ==
    IF n = 0 THEN <<>> ELSE InsertDescending(SortDescending(list, n - 1), list[n])

narrative_dependencies_of(tag_exposure) ==
    SortDescending([i \in DOMAIN NARRATIVES |->
                       [key |-> NARRATIVES[i].key,
                        dependency_score |-> final_dependency(NARRATIVES[i], tag_exposure)]],
                   Len(NARRATIVES))

\* The health score truncated without the clamp to [0, 100].
health_score_of_Unclamped(category_exposure) ==
    LET base == Sub(Num(80), Mul(category_exposure["Risk"], Rat(15, 10)))
        spec == IF Gt(category_exposure["Speculative"], Num(30))
                THEN Sub(base, Mul(Sub(category_exposure["Speculative"], Num(30)),
                                   Rat(5, 10)))
                ELSE base
        safe == IF Gt(category_exposure["Safety"], Num(50)) THEN Add(spec, Num(5)) ELSE spec
        score == IF Gt(category_exposure["Quality"], Num(30)) THEN Add(safe, Num(5)) ELSE safe
    IN  IF Lt(score, Num(0)) THEN -(AbsInt(score.n) \div score.d)
        ELSE score.n \div score.d

\* The health score with the two bonuses granted from the threshold on.
health_score_of_NonStrict(category_exposure) ==
    LET base == Sub(Num(80), Mul(category_exposure["Risk"], Rat(15, 10)))
        spec == IF Gt(category_exposure["Speculative"], Num(30))
                THEN Sub(base, Mul(Sub(category_exposure["Speculative"], Num(30)),
                                   Rat(5, 10)))
                ELSE base
        safe == IF ~Lt(category_exposure["Safety"], Num(50)) THEN Add(spec, Num(5)) ELSE spec
        score == IF ~Lt(category_exposure["Quality"], Num(30)) THEN Add(safe, Num(5)) ELSE safe
    IN  IF Lt(score, Num(0)) THEN 0
        ELSE IF Gt(score, Num(100)) THEN 100
        ELSE score.n \div score.d

\* The health score on a base of 85.
health_score_of_HigherBase(category_exposure) ==
    LET base == Sub(Num(85), Mul(category_exposure["Risk"], Rat(15, 10)))
        spec == IF Gt(category_exposure["Speculative"], Num(30))
                THEN Sub(base, Mul(Sub(category_exposure["Speculative"], Num(30)),
                                   Rat(5, 10)))
                ELSE base
        safe == IF Gt(category_exposure["Safety"], Num(50)) THEN Add(spec, Num(5)) ELSE spec
        score == IF Gt(category_exposure["Quality"], Num(30)) THEN Add(safe, Num(5)) ELSE safe
    IN  IF Lt(score, Num(0)) THEN 0
        ELSE IF Gt(score, Num(100)) THEN 100
        ELSE score.n \div score.d

\* int(max(0, min(100, score))) of the health score.
health_score_of(category_exposure) ==
    LET base == Sub(Num(80), Mul(category_exposure["Risk"], Rat(15, 10)))
        spec == IF Gt(category_exposure["Speculative"], Num(30))
                THEN Sub(base, Mul(Sub(category_exposure["Speculative"], Num(30)),
                                   Rat(5, 10)))
                ELSE base
        safe == IF Gt(category_exposure["Safety"], Num(50)) THEN Add(spec, Num(5)) ELSE spec
        score == IF Gt(category_exposure["Quality"], Num(30)) THEN Add(safe, Num(5)) ELSE safe
    IN  IF Lt(score, Num(0)) THEN 0
        ELSE IF Gt(score, Num(100)) THEN 100
        ELSE score.n \div score.d

\* _generate_summary: the message is named by its level and by whether it
\* names the top narrative.
generate_summary(score, narratives) ==
    LET top == IF narratives = <<>> THEN Num(0) ELSE narratives[1].dependency_score
    IN  IF score < 40
        THEN (IF Gt(top, Num(50)) THEN "danger: narrative" ELSE "danger")
        ELSE IF score < 60
        THEN (IF Gt(top, Num(40)) THEN "caution: narrative" ELSE "caution")
        ELSE IF score < 80
        THEN (IF Gt(top, Num(30)) THEN "good: narrative" ELSE "good")
        ELSE "excellent"

empty_result ==
    [total_value |-> Num(0),
     health_score |-> 0,
     diagnosis_summary |-> "portfolio is empty",
     category_exposure |-> [c \in {} |-> Num(0)],
     tag_exposure |-> [t \in {} |-> Num(0)],
     narrative_analysis |-> <<>>,
     holdings |-> <<>>]

\* The report on holdings of non-zero total value.
full_report(holdings, total_value) ==
    LET tag_exposure == tag_exposure_of(holdings, total_value)
        category_exposure == category_exposure_of(holdings, total_value)
        narrative_dependencies == narrative_dependencies_of(tag_exposure)
        health_score == health_score_of(category_exposure)
    IN  [total_value |-> total_value,
         health_score |-> health_score,
         diagnosis_summary |-> generate_summary(health_score, narrative_dependencies),
         category_exposure |-> category_exposure,
         tag_exposure |-> tag_exposure,
         narrative_analysis |-> narrative_dependencies,
         holdings |-> holdings]

\* What a caller of analyze gets when a division by zero is attempted.
RaisedZeroDivision == [exception |-> "ZeroDivisionError"]

\* analyze with the empty report only for a portfolio without holdings: the
\* weights are computed whenever there is a holding.
analyze_NoEmptyGuard(items, analyses) ==
    LET holdings == collect_holdings(items, analyses, 1)
        total_value == SumSeq([i \in DOMAIN holdings |-> holdings[i].market_value])
    IN  IF holdings = <<>> THEN empty_result
        ELSE IF IsError(holding_weight(holdings[1], total_value)) THEN RaisedZeroDivision
        ELSE full_report(holdings, total_value)

\* PortfolioAnalyzer(portfolio).analyze() on the portfolio's items and the
\* latest analysis of each stock.
analyze(items, analyses) ==
    LET holdings == collect_holdings(items, analyses, 1)
        total_value == SumSeq([i \in DOMAIN holdings |-> holdings[i].market_value])
    IN  IF IsZero(total_value) THEN empty_result
        ELSE full_report(holdings, total_value)

-----------------------------------------------------------------------------
(* The fetch log table and the fetch_all management command                  *)
(* (stocks/management/commands/fetch_all.py).                                *)

\* The codes of the Stock rows at the time of a fetch_all run.
BatchCodes == {"1301", "6758", "7203", "8306", "9984"}

\* StockFetchLog ids.  A record is identified by the run and the ticker of the
\* process_ticker call that created it; run 0 stands for earlier runs.
LogIds == {0, 1} \X BatchCodes

NoLog == [exists |-> FALSE]
NoFuture == [pc |-> "none"]

BatchOff ==
    /\ batch_pc = "off"
    /\ futures = [c \in BatchCodes |-> NoFuture]
    /\ fetch_logs = [id \in LogIds |-> NoLog]
    /\ results = [SUCCESS |-> 0, FAILURE |-> 0]
    /\ stock_rows = BatchCodes

-----------------------------------------------------------------------------
(* The analysis pass of fetch_data.Command.handle, from the construction of *)
(* metrics_input to the AnalysisResult row.  Summary fragments are named by *)
(* short English tags; the numbers formatted into them are not kept.        *)

NoRow == [saved |-> FALSE]

\* No provider is asked, no statement was saved and no earlier pass has run.
NoProvider == [answer |-> "none"]
NoRun == [exists |-> FALSE]

FetchOff ==
    /\ provider = NoProvider
    /\ saved_statements = <<>>
    /\ first_run = NoRun

idleCall == [fn |-> "idle", args |-> <<>>, ret |-> None, raised |-> FALSE]

Init ==
    /\ metrics_input \in PassInputs
    /\ pc = "metrics"
    /\ f_score = 0 /\ f_reasons = <<>>
    /\ z_score = None /\ accruals = None /\ gross_prof = None /\ roiic = None
    /\ implied_g_fcf = None /\ implied_g_rev = None /\ actual_g_rev = None /\ gap = None
    /\ status = "" /\ is_good_buy = FALSE /\ ai_summary_parts = <<>>
    /\ has_fcf = FALSE /\ z_zone = "" /\ state = "" /\ expectation = ""
    /\ risk_level = "" /\ risk_factors = <<>>
    /\ final_label = ""
    /\ raised = FALSE
    /\ analysis_result = NoRow
    /\ FetchOff
    /\ call = idleCall
    /\ PortfolioTablesEmpty
    /\ BatchOff

\* 1. the ratios
ComputeMetrics ==
    /\ pc = "metrics"
    /\ LET f == calculate_piotroski_f_score(metrics_input)
           g_rev == calculate_implied_revenue_growth(metrics_input)
           a_rev == calculate_actual_revenue_growth(metrics_input)
       IN  IF f.raised
           THEN /\ raised' = TRUE
                /\ pc' = "raised"
                /\ UNCHANGED <<f_score, f_reasons, z_score, accruals, gross_prof, roiic,
                               implied_g_fcf, implied_g_rev, actual_g_rev, gap>>
           ELSE /\ f_score' = f.score
                /\ f_reasons' = f.reasons
                /\ z_score' = calculate_altman_z_score(metrics_input)
                /\ accruals' = calculate_accruals_ratio(metrics_input)
                /\ gross_prof' = calculate_gross_profitability(metrics_input)
                /\ roiic' = calculate_roiic(metrics_input)
                /\ implied_g_fcf' = calculate_implied_growth_rate(metrics_input)
                /\ implied_g_rev' = g_rev
                /\ actual_g_rev' = a_rev
                /\ gap' = calculate_reality_gap(g_rev, a_rev)
                /\ pc' = "status"
                /\ UNCHANGED raised
    /\ UNCHANGED <<metrics_input, status, is_good_buy, ai_summary_parts, has_fcf, z_zone,
                   state, expectation, risk_level, risk_factors, final_label,
                   analysis_result, call,
                   fetchVars, portfolioVars, batchVars>>

\* A. the Z-zone part of the earlier status block
StatusAfterZone(z) ==
    IF ~IsNone(z) /\ classify_altman_zone(z) = "distress" THEN "Sell" ELSE "Hold"

PartsAfterZone(z) ==
    IF IsNone(z) THEN <<>>
    ELSE IF classify_altman_zone(z) = "distress" THEN <<"distress zone">>
    ELSE IF classify_altman_zone(z) = "grey" THEN <<"grey zone">>
    ELSE <<>>

\* B. the f_score part of the earlier status block: the branch taken
HealthBranch(st, fs, g_fcf, g_rev, g) ==
    IF fs >= 6 THEN
        IF st # "Sell" THEN
            IF ~IsNone(g_fcf) /\ Lt(g_fcf, Num(10)) THEN "strong buy"
            ELSE IF IsNone(g_fcf) /\ ~IsNone(g_rev) /\ Lt(g_rev, Num(20)) THEN "buy growth"
            ELSE IF ~IsNone(g) /\ Lt(g, Num(-5)) THEN "buy asymmetric"
            ELSE "watch"
        ELSE "none"
    ELSE IF fs <= 3 THEN "sell"
    ELSE "none"

\* 2. the earlier status block
LegacyStatus ==
    /\ pc = "status"
    /\ LET st == StatusAfterZone(z_score)
           parts == PartsAfterZone(z_score)
           branch == HealthBranch(st, f_score, implied_g_fcf, implied_g_rev, gap)
       IN  /\ status' = CASE branch = "strong buy" -> "Strong Buy"
                          [] branch \in {"buy growth", "buy asymmetric"} -> "Buy"
                          [] branch = "watch" -> "Watch"
                          [] branch = "sell" -> "Sell"
                          [] OTHER -> st
           /\ is_good_buy' = (branch \in {"strong buy", "buy growth", "buy asymmetric"})
           /\ ai_summary_parts' = IF branch = "none" THEN parts ELSE Append(parts, branch)
    /\ z_zone' = IF IsNone(z_score) THEN z_zone ELSE classify_altman_zone(z_score)
    /\ pc' = "diagnose"
    /\ UNCHANGED <<metrics_input, f_score, f_reasons, z_score, accruals, gross_prof, roiic,
                   implied_g_fcf, implied_g_rev, actual_g_rev, gap, has_fcf, state,
                   expectation, risk_level, risk_factors, final_label, raised,
                   analysis_result, call,
                   fetchVars, portfolioVars, batchVars>>

\* `has_fcf = implied_g_fcf is not None`
HasFcf(g_fcf) == ~IsNone(g_fcf)

\* `classify_altman_zone(z_score) if z_score else "grey"`
ZoneOf(z) == IF Truthy(z) THEN classify_altman_zone(z) ELSE "grey"

\* State, expectation and risk with the risk factors taken in no fixed order, as
\* from a set.
Diagnose_UnorderedRisks ==
    /\ pc = "diagnose"
    /\ LET fcf == HasFcf(implied_g_fcf)
           zone == ZoneOf(z_score)
           risk == assess_risks(zone, f_score, accruals)
       IN  /\ has_fcf' = fcf
           /\ z_zone' = zone
           /\ state' = diagnose_corporate_state(f_score, zone, fcf)
           /\ expectation' = diagnose_expectation(gap, implied_g_rev, fcf)
           /\ risk_level' = risk.level
           /\ \E p \in Permutations(1..Len(risk.risks)) :
                  risk_factors' = [i \in 1..Len(risk.risks) |-> risk.risks[p[i]]]
    /\ pc' = "verdict"
    /\ UNCHANGED <<metrics_input, f_score, f_reasons, z_score, accruals, gross_prof, roiic,
                   implied_g_fcf, implied_g_rev, actual_g_rev, gap, status, is_good_buy,
                   ai_summary_parts, final_label, raised, analysis_result, call,
                   fetchVars, portfolioVars, batchVars>>

\* 3. state, expectation, risk
Diagnose ==
    /\ pc = "diagnose"
    /\ LET fcf == HasFcf(implied_g_fcf)
           zone == ZoneOf(z_score)
           risk == assess_risks(zone, f_score, accruals)
       IN  /\ has_fcf' = fcf
           /\ z_zone' = zone
           /\ state' = diagnose_corporate_state(f_score, zone, fcf)
           /\ expectation' = diagnose_expectation(gap, implied_g_rev, fcf)
           /\ risk_level' = risk.level
           /\ risk_factors' = risk.risks
    /\ pc' = "verdict"
    /\ UNCHANGED <<metrics_input, f_score, f_reasons, z_score, accruals, gross_prof, roiic,
                   implied_g_fcf, implied_g_rev, actual_g_rev, gap, status, is_good_buy,
                   ai_summary_parts, final_label, raised, analysis_result, call,
                   fetchVars, portfolioVars, batchVars>>

\* The cascade with the Watch branch tried first, before the Critical branch.
VerdictRule_WatchFirst(risk, st, exp) ==
    IF exp \in {"Overheated", "Optimistic"} THEN 4
    ELSE IF risk = "Critical" THEN 1
    ELSE IF st = "Deteriorating" THEN 2
    ELSE IF st \in {"Cash Generator", "High Growth"} /\ exp = "Underestimated" THEN 3
    ELSE IF st = "High Growth" /\ exp = "Single Engine" /\ risk = "Low" THEN 5
    ELSE IF st \in {"Cash Generator", "High Growth"} /\ risk # "High" THEN 6
    ELSE 7

\* The cascade with branches 5 and 6 exchanged.
VerdictRule_BuyBeforeSpec(risk, st, exp) ==
    IF risk = "Critical" THEN 1
    ELSE IF st = "Deteriorating" THEN 2
    ELSE IF st \in {"Cash Generator", "High Growth"} /\ exp = "Underestimated" THEN 3
    ELSE IF exp \in {"Overheated", "Optimistic"} THEN 4
    ELSE IF st \in {"Cash Generator", "High Growth"} /\ risk # "High" THEN 6
    ELSE IF st = "High Growth" /\ exp = "Single Engine" /\ risk = "Low" THEN 5
    ELSE 7

\* The if/elif cascade of the final label: the number of the branch taken
\* (7 is the closing else).
VerdictRule(risk, st, exp) ==
    IF risk = "Critical" THEN 1
    ELSE IF st = "Deteriorating" THEN 2
    ELSE IF st \in {"Cash Generator", "High Growth"} /\ exp = "Underestimated" THEN 3
    ELSE IF exp \in {"Overheated", "Optimistic"} THEN 4
    ELSE IF st = "High Growth" /\ exp = "Single Engine" /\ risk = "Low" THEN 5
    ELSE IF st \in {"Cash Generator", "High Growth"} /\ risk # "High" THEN 6
    ELSE 7

\* The label each branch assigns to final_label.
RuleLabel(rule) ==
    CASE rule = 1 -> "Avoid"
      [] rule = 2 -> "Sell"
      [] rule = 3 -> "Strong Buy"
      [] rule = 4 -> "Watch"
      [] rule = 5 -> "Buy (Spec)"
      [] rule = 6 -> "Buy"
      [] OTHER -> "Hold"

\* The branches that set is_good_buy = True; the others leave it as it is.
RuleSetsGoodBuy(rule) == rule \in {3, 5, 6}

\* The rationale fragment each branch appends.
RuleFragment(rule) ==
    CASE rule = 1 -> "avoid: risk factors"
      [] rule = 2 -> "deteriorating: sell"
      [] rule = 3 -> "underestimated: gap"
      [] rule = 4 -> "overheated: wait"
      [] rule = 5 -> "speculative growth"
      [] rule = 6 -> "sound and reasonable"
      [] OTHER -> "nothing notable"

\* The final label step without the `ai_summary_parts = []` of line 346: the
\* cascade's fragment is appended to what the earlier block left.
Verdict_KeepParts ==
    /\ pc = "verdict"
    /\ LET rule == VerdictRule(risk_level, state, expectation)
       IN  /\ final_label' = RuleLabel(rule)
           /\ is_good_buy' = (RuleSetsGoodBuy(rule) \/ is_good_buy)
           /\ ai_summary_parts' = Append(ai_summary_parts, RuleFragment(rule))
           /\ pc' = "save"
           /\ UNCHANGED raised
    /\ UNCHANGED <<metrics_input, f_score, f_reasons, z_score, accruals, gross_prof, roiic,
                   implied_g_fcf, implied_g_rev, actual_g_rev, gap, status, has_fcf, z_zone,
                   state, expectation, risk_level, risk_factors, analysis_result, call,
                   fetchVars, portfolioVars, batchVars>>

\* 4. the final label.  Branch 3 formats gap with f"{gap:.1f}", which raises
\* TypeError for None.
Verdict ==
    /\ pc = "verdict"
    /\ LET rule == VerdictRule(risk_level, state, expectation)
       IN  IF rule = 3 /\ IsNone(gap)
           THEN /\ raised' = TRUE
                /\ pc' = "raised"
                /\ final_label' = RuleLabel(rule)
                /\ is_good_buy' = TRUE
                /\ ai_summary_parts' = <<>>
           ELSE /\ final_label' = RuleLabel(rule)
                /\ is_good_buy' = (RuleSetsGoodBuy(rule) \/ is_good_buy)
                /\ ai_summary_parts' = <<RuleFragment(rule)>>
                /\ pc' = "save"
                /\ UNCHANGED raised
    /\ UNCHANGED <<metrics_input, f_score, f_reasons, z_score, accruals, gross_prof, roiic,
                   implied_g_fcf, implied_g_rev, actual_g_rev, gap, status, has_fcf, z_zone,
                   state, expectation, risk_level, risk_factors, analysis_result, call,
                   fetchVars, portfolioVars, batchVars>>

\* 5. AnalysisResult.objects.update_or_create(..., defaults={...}): the defaults
\* dictionary names no tag column.
Save ==
    /\ pc = "save"
    /\ analysis_result' = TagDefaults @@
           [saved |-> TRUE,
            stock_price |-> metrics_input.stock_price,
            market_cap |-> metrics_input.market_cap,
            f_score |-> f_score,
            z_score |-> z_score,
            accruals_ratio |-> accruals,
            gross_profitability |-> gross_prof,
            roiic |-> roiic,
            implied_growth_rate |-> implied_g_fcf,
            implied_revenue_growth |-> implied_g_rev,
            status |-> final_label,
            state |-> state,
            expectation_structure |-> expectation,
            risk_level |-> risk_level,
            risk_details |-> risk_factors,
            is_good_buy |-> is_good_buy,
            ai_summary |-> ai_summary_parts,
            actual_revenue_growth |-> actual_g_rev,
            expectation_gap |-> gap]
    /\ pc' = "done"
    /\ UNCHANGED <<metrics_input, f_score, f_reasons, z_score, accruals, gross_prof, roiic,
                   implied_g_fcf, implied_g_rev, actual_g_rev, gap, status, is_good_buy,
                   ai_summary_parts, has_fcf, z_zone, state, expectation, risk_level,
                   risk_factors, final_label, raised, call,
                   fetchVars, portfolioVars, batchVars>>

Next ==
    \/ ComputeMetrics
    \/ LegacyStatus
    \/ Diagnose
    \/ Verdict
    \/ Save

Spec == Init /\ [][Next]_vars

-----------------------------------------------------------------------------
(* The analysis pass invoked twice on the same FinancialMetricsInput *)

\* What one pass produces: the ratios, the diagnosis, the label, the flag, the
\* summary and the stored row.
PipelineOutput ==
    [f_score |-> f_score, f_reasons |-> f_reasons, z_score |-> z_score,
     accruals |-> accruals, gross_prof |-> gross_prof, roiic |-> roiic,
     implied_g_fcf |-> implied_g_fcf, implied_g_rev |-> implied_g_rev,
     actual_g_rev |-> actual_g_rev, gap |-> gap,
     state |-> state, expectation |-> expectation,
     risk_level |-> risk_level, risk_factors |-> risk_factors,
     final_label |-> final_label, is_good_buy |-> is_good_buy,
     ai_summary |-> ai_summary_parts, raised |-> raised, row |-> analysis_result]

InitTwice ==
    /\ Init
    /\ metrics_input.beta = Num(1)
    /\ metrics_input.sector = Unknown

\* The pass is entered again with the same metrics_input.  Its local names are
\* bound anew by the assignments of lines 249-346, so what they held is kept here
\* only to be overwritten; the AnalysisResult row of the first run is in the table.
Rerun ==
    /\ pc \in {"done", "raised"}
    /\ ~first_run.exists
    /\ first_run' = [exists |-> TRUE, output |-> PipelineOutput]
    /\ pc' = "metrics"
    /\ raised' = FALSE
    /\ UNCHANGED <<metrics_input, f_score, f_reasons, z_score, accruals, gross_prof, roiic,
                   implied_g_fcf, implied_g_rev, actual_g_rev, gap, status, is_good_buy,
                   ai_summary_parts, has_fcf, z_zone, state, expectation, risk_level,
                   risk_factors, final_label, analysis_result, provider,
                   saved_statements, call, portfolioVars, batchVars>>

NextTwice ==
    \/ ComputeMetrics
    \/ LegacyStatus
    \/ Diagnose
    \/ Verdict
    \/ Save
    \/ Rerun

SpecTwice == InitTwice /\ [][NextTwice]_vars

-----------------------------------------------------------------------------
(* Direct calls of the FinancialCalculator static methods, one at a time, on *)
(* arguments of the caller's choice, and the category test of               *)
(* PortfolioAnalyzer.analyze applied to one analysis.                        *)

\* Z-scores handed to classify_altman_zone: -MaxZCenti/100 .. MaxZCenti/100 in
\* steps of 0.01.
MaxZCenti == 320

DefaultInput ==
    [revenue |-> Num(120), operating_income |-> Num(15), net_income |-> Num(10),
     ebit |-> Num(10), interest_expense |-> Num(1), depreciation |-> Num(2),
     total_assets |-> Num(100), total_equity |-> Num(40), current_assets |-> Num(100),
     current_liabilities |-> Num(50), inventory |-> Num(10),
     retained_earnings |-> Num(50), long_term_debt |-> Num(50),
     operating_cf |-> Num(20), investing_cf |-> Num(-5), capex |-> Num(5),
     stock_price |-> Num(1), market_cap |-> Num(160), beta |-> Num(1),
     prev_revenue |-> None, prev_operating_income |-> None, prev_net_income |-> None,
     prev_total_assets |-> None, prev_current_assets |-> None,
     prev_current_liabilities |-> None, prev_inventory |-> None,
     prev_long_term_debt |-> None, sector |-> Unknown]

\* Prior-period fields: all absent, or all present (zero allowed).
PriorPeriods ==
    [prev_revenue : {None}, prev_operating_income : {None}, prev_net_income : {None},
     prev_total_assets : {None}, prev_current_assets : {None},
     prev_current_liabilities : {None}, prev_inventory : {None},
     prev_long_term_debt : {None}]
    \cup
    [prev_revenue : {Num(0), Num(100)}, prev_operating_income : {Num(10)},
     prev_net_income : {Num(5)}, prev_total_assets : {Num(0), Num(100)},
     prev_current_assets : {Num(75)}, prev_current_liabilities : {Num(0), Num(50)},
     prev_inventory : {Num(0), Num(10)}, prev_long_term_debt : {Num(0), Num(25)}]

WithPrior(data, prior) ==
    [data EXCEPT !.prev_revenue = prior.prev_revenue,
                 !.prev_operating_income = prior.prev_operating_income,
                 !.prev_net_income = prior.prev_net_income,
                 !.prev_total_assets = prior.prev_total_assets,
                 !.prev_current_assets = prior.prev_current_assets,
                 !.prev_current_liabilities = prior.prev_current_liabilities,
                 !.prev_inventory = prior.prev_inventory,
                 !.prev_long_term_debt = prior.prev_long_term_debt]

Amounts == {Num(-10), Num(0), Num(50)}
Sectors == {Unknown, Pharmaceuticals,
            <<"R", "e", "t", "a", "i", "l", " ", "T", "r", "a", "d", "e">>,
            <<"B", "a", "n", "k", "s", " ", "&", " ",
              "R", "e", "a", "l", " ", "E", "s", "t", "a", "t", "e">>,
            <<>>}
FScoreArgs == 0..9
Zones == {"distress", "grey", "safe"}
GrowthArgs == {None} \cup {Num(k) : k \in {-11, -10, -9, 0, 10, 11, 20, 21, 25, 26}}
AccrualsArgs == {None, Num(-1), Num(0), Rat(15, 100), Rat(16, 100), Num(1)}

\* The analysis pass is not running.
PassOff ==
    /\ metrics_input = DefaultInput
    /\ pc = "off"
    /\ f_score = 0 /\ f_reasons = <<>>
    /\ z_score = None /\ accruals = None /\ gross_prof = None /\ roiic = None
    /\ implied_g_fcf = None /\ implied_g_rev = None /\ actual_g_rev = None /\ gap = None
    /\ status = "" /\ is_good_buy = FALSE /\ ai_summary_parts = <<>>
    /\ has_fcf = FALSE /\ z_zone = "" /\ state = "" /\ expectation = ""
    /\ risk_level = "" /\ risk_factors = <<>>
    /\ final_label = ""
    /\ raised = FALSE
    /\ analysis_result = NoRow
    /\ FetchOff

InitCalc ==
    /\ PassOff
    /\ call = idleCall
    /\ PortfolioTablesEmpty
    /\ BatchOff

\* The call of method fn on args has returned ret, or has raised.
Invoke(fn, args, ret, err) ==
    /\ call' = [fn |-> fn, args |-> args, ret |-> ret, raised |-> err]
    /\ UNCHANGED <<passVars, portfolioVars, batchVars>>

Call_calculate_altman_z_score ==
    /\ call.fn = "idle"
    /\ \E ta \in Amounts, cl \in Amounts, ca \in Amounts, ltd \in Amounts,
          eb \in {Num(0), Num(10)}, mc \in {Num(0), Num(160)}, rev \in {Num(0), Num(120)} :
           LET data == [DefaultInput EXCEPT !.total_assets = ta, !.current_liabilities = cl,
                            !.current_assets = ca, !.long_term_debt = ltd, !.ebit = eb,
                            !.market_cap = mc, !.revenue = rev]
               ret == calculate_altman_z_score(data)
           IN  Invoke("calculate_altman_z_score", data, ret, IsError(ret))

Call_classify_altman_zone ==
    /\ call.fn = "idle"
    /\ \E k \in -MaxZCenti..MaxZCenti :
           Invoke("classify_altman_zone", Rat(k, 100), classify_altman_zone(Rat(k, 100)), FALSE)

Call_calculate_interest_coverage ==
    /\ call.fn = "idle"
    /\ \E ie \in Amounts, eb \in Amounts :
           LET data == [DefaultInput EXCEPT !.interest_expense = ie, !.ebit = eb]
               ret == calculate_interest_coverage(data)
           IN  Invoke("calculate_interest_coverage", data, ret, IsError(ret))

Call_calculate_accruals_ratio ==
    /\ call.fn = "idle"
    /\ \E ta \in Amounts, ni \in Amounts, ocf \in Amounts :
           LET data == [DefaultInput EXCEPT !.total_assets = ta, !.net_income = ni,
                                            !.operating_cf = ocf]
               ret == calculate_accruals_ratio(data)
           IN  Invoke("calculate_accruals_ratio", data, ret, IsError(ret))

Call_calculate_earnings_quality ==
    /\ call.fn = "idle"
    /\ \E ni \in Amounts, ocf \in Amounts :
           LET data == [DefaultInput EXCEPT !.net_income = ni, !.operating_cf = ocf]
               ret == calculate_earnings_quality(data)
           IN  Invoke("calculate_earnings_quality", data, ret, IsError(ret))

Call_calculate_delta_noa ==
    /\ call.fn = "idle"
    /\ \E ta \in Amounts, ca \in Amounts, cl \in Amounts, prior \in PriorPeriods :
           LET data == WithPrior([DefaultInput EXCEPT !.total_assets = ta,
                                      !.current_assets = ca, !.current_liabilities = cl], prior)
               ret == calculate_delta_noa(data)
           IN  Invoke("calculate_delta_noa", data, ret, IsError(ret))

Call_calculate_inventory_quality ==
    /\ call.fn = "idle"
    /\ \E inv \in Amounts, rev \in Amounts, prior \in PriorPeriods :
           LET data == WithPrior([DefaultInput EXCEPT !.inventory = inv, !.revenue = rev], prior)
               ret == calculate_inventory_quality(data)
           IN  Invoke("calculate_inventory_quality", data, ret, IsError(ret))

Call_calculate_gross_profitability ==
    /\ call.fn = "idle"
    /\ \E ta \in Amounts, oi \in Amounts :
           LET data == [DefaultInput EXCEPT !.total_assets = ta, !.operating_income = oi]
               ret == calculate_gross_profitability(data)
           IN  Invoke("calculate_gross_profitability", data, ret, IsError(ret))

Call_calculate_cbop ==
    /\ call.fn = "idle"
    /\ \E ta \in Amounts, ocf \in Amounts :
           LET data == [DefaultInput EXCEPT !.total_assets = ta, !.operating_cf = ocf]
               ret == calculate_cbop(data)
           IN  Invoke("calculate_cbop", data, ret, IsError(ret))

Call_calculate_roiic ==
    /\ call.fn = "idle"
    /\ \E ta \in Amounts, oi \in Amounts, prior \in PriorPeriods :
           LET data == WithPrior([DefaultInput EXCEPT !.total_assets = ta,
                                                      !.operating_income = oi], prior)
               ret == calculate_roiic(data)
           IN  Invoke("calculate_roiic", data, ret, IsError(ret))

Call_calculate_reinvestment_rate ==
    /\ call.fn = "idle"
    /\ \E ocf \in Amounts, cx \in Amounts, dep \in Amounts :
           LET data == [DefaultInput EXCEPT !.operating_cf = ocf, !.capex = cx,
                                            !.depreciation = dep]
               ret == calculate_reinvestment_rate(data)
           IN  Invoke("calculate_reinvestment_rate", data, ret, IsError(ret))

Call_calculate_dupont_breakdown ==
    /\ call.fn = "idle"
    /\ \E te \in Amounts, ta \in Amounts, rev \in Amounts, ni \in Amounts :
           LET data == [DefaultInput EXCEPT !.total_equity = te, !.total_assets = ta,
                                            !.revenue = rev, !.net_income = ni]
               ret == calculate_dupont_breakdown(data)
           IN  Invoke("calculate_dupont_breakdown", data, ret,
                      \E q \in {ret.net_profit_margin, ret.asset_turnover,
                                ret.financial_leverage, ret.roe} : IsError(q))

Call_calculate_implied_growth_rate ==
    /\ call.fn = "idle"
    /\ \E mc \in Amounts, ocf \in Amounts, icf \in Amounts, b \in {Num(1), Num(2)} :
           LET data == [DefaultInput EXCEPT !.market_cap = mc, !.operating_cf = ocf,
                                            !.investing_cf = icf, !.beta = b]
               ret == calculate_implied_growth_rate(data)
           IN  Invoke("calculate_implied_growth_rate", data, ret, IsError(ret))

Call_calculate_equity_duration_proxy ==
    /\ call.fn = "idle"
    /\ \E mc \in Amounts \cup {Num(800), Num(8000)}, ocf \in Amounts, icf \in Amounts,
          b \in {Num(1), Num(2)} :
           LET data == [DefaultInput EXCEPT !.market_cap = mc, !.operating_cf = ocf,
                                            !.investing_cf = icf, !.beta = b]
               ret == calculate_equity_duration_proxy(data)
           IN  Invoke("calculate_equity_duration_proxy", data, ret, IsError(ret))

Call_calculate_piotroski_f_score ==
    /\ call.fn = "idle"
    /\ \E ni \in {Num(-5), Num(10)}, ocf \in {Num(-10), Num(20)}, ta \in {Num(0), Num(100)},
          ltd \in {Num(0), Num(50)}, ca \in {Num(50), Num(100)}, cl \in {Num(0), Num(50)},
          oi \in {Num(5), Num(15)}, rev \in {Num(0), Num(120)}, prior \in PriorPeriods :
           LET data == WithPrior([DefaultInput EXCEPT !.net_income = ni, !.operating_cf = ocf,
                                      !.total_assets = ta, !.long_term_debt = ltd,
                                      !.current_assets = ca, !.current_liabilities = cl,
                                      !.operating_income = oi, !.revenue = rev], prior)
               ret == calculate_piotroski_f_score(data)
           IN  Invoke("calculate_piotroski_f_score", data, ret, ret.raised)

Call_get_target_margin ==
    /\ call.fn = "idle"
    /\ \E sector \in Sectors :
           Invoke("get_target_margin", sector, get_target_margin(sector), FALSE)

Call_calculate_implied_revenue_growth ==
    /\ call.fn = "idle"
    /\ \E mc \in Amounts \cup {Num(800)}, rev \in Amounts \cup {Num(120)}, sector \in Sectors :
           LET data == [DefaultInput EXCEPT !.market_cap = mc, !.revenue = rev,
                                            !.sector = sector]
               ret == calculate_implied_revenue_growth(data)
           IN  Invoke("calculate_implied_revenue_growth", data, ret, IsError(ret))

Call_calculate_actual_revenue_growth ==
    /\ call.fn = "idle"
    /\ \E rev \in Amounts, prior \in PriorPeriods :
           LET data == WithPrior([DefaultInput EXCEPT !.revenue = rev], prior)
               ret == calculate_actual_revenue_growth(data)
           IN  Invoke("calculate_actual_revenue_growth", data, ret, IsError(ret))

Call_calculate_reality_gap ==
    /\ call.fn = "idle"
    /\ \E implied \in GrowthArgs, actual \in GrowthArgs :
           LET ret == calculate_reality_gap(implied, actual)
           IN  Invoke("calculate_reality_gap", <<implied, actual>>, ret, IsError(ret))

Call_diagnose_corporate_state ==
    /\ call.fn = "idle"
    /\ \E fs \in FScoreArgs, zone \in Zones, fcf \in BOOLEAN :
           Invoke("diagnose_corporate_state", <<fs, zone, fcf>>,
                  diagnose_corporate_state(fs, zone, fcf), FALSE)

Call_diagnose_expectation ==
    /\ call.fn = "idle"
    /\ \E g \in GrowthArgs, implied \in GrowthArgs, fcf \in BOOLEAN :
           Invoke("diagnose_expectation", <<g, implied, fcf>>,
                  diagnose_expectation(g, implied, fcf), FALSE)

Call_assess_risks ==
    /\ call.fn = "idle"
    /\ \E zone \in Zones, fs \in FScoreArgs, accr \in AccrualsArgs :
           Invoke("assess_risks", <<zone, fs, accr>>, assess_risks(zone, fs, accr), FALSE)

\* The caller goes on to its next call.
\* The category test of PortfolioAnalyzer.analyze on an analysis with any set
\* of tags.
Call_assigned_cat ==
    /\ call.fn = "idle"
    /\ \E tags \in SUBSET Tags :
           LET analysis == AnalysisRow(None, tags)
           IN  Invoke("assigned_cat", analysis, assigned_cat(analysis), FALSE)

Return ==
    /\ call.fn # "idle"
    /\ call' = idleCall
    /\ UNCHANGED <<passVars, portfolioVars, batchVars>>

NextCalc ==
    \/ Call_calculate_altman_z_score
    \/ Call_classify_altman_zone
    \/ Call_calculate_interest_coverage
    \/ Call_calculate_accruals_ratio
    \/ Call_calculate_earnings_quality
    \/ Call_calculate_delta_noa
    \/ Call_calculate_inventory_quality
    \/ Call_calculate_gross_profitability
    \/ Call_calculate_cbop
    \/ Call_calculate_roiic
    \/ Call_calculate_reinvestment_rate
    \/ Call_calculate_dupont_breakdown
    \/ Call_calculate_implied_growth_rate
    \/ Call_calculate_equity_duration_proxy
    \/ Call_calculate_piotroski_f_score
    \/ Call_get_target_margin
    \/ Call_calculate_implied_revenue_growth
    \/ Call_calculate_actual_revenue_growth
    \/ Call_calculate_reality_gap
    \/ Call_diagnose_corporate_state
    \/ Call_diagnose_expectation
    \/ Call_assess_risks
    \/ Call_assigned_cat
    \/ Return

SpecCalc == InitCalc /\ [][NextCalc]_vars

-----------------------------------------------------------------------------
(* PortfolioAnalyzer.analyze on the rows the portfolio tables hold: the     *)
(* items of one portfolio and the latest AnalysisResult of each stock.      *)

MaxQuantity == 2

\* PortfolioItem.quantity is a signed decimal column.
Quantities == {-1} \cup 1..MaxQuantity

ItemRows == {NoItem} \cup {[held |-> TRUE, quantity |-> q] : q \in Quantities}

\* The latest AnalysisResult each stock may have.
AnalysisTables ==
    {[c \in StockCodes |-> IF c = "1301" THEN a ELSE IF c = "7203" THEN b ELSE d] :
        a \in {NoAnalysis,
               AnalysisRow(Num(1), {"tag_zombie", "tag_safety_shield"}),
               AnalysisRow(Num(3), {"tag_single_engine", "tag_quality_growth"}),
               AnalysisRow(Num(7), {"tag_cash_cow"})},
        b \in {AnalysisRow(None, {"tag_zombie"}),
               AnalysisRow(Num(3), {"tag_quality_growth", "tag_institutional"}),
               AnalysisRow(Num(7), {"tag_safety_shield"}),
               AnalysisRow(Num(7), {"tag_silent_improver"})},
        d \in {AnalysisRow(Num(0), {"tag_fragile"}),
               AnalysisRow(Num(1), {"tag_accounting_risk", "tag_institutional"}),
               AnalysisRow(Num(7), {"tag_cash_cow", "tag_turnaround"}),
               AnalysisRow(Num(7), {})}}

InitPortfolio ==
    /\ PassOff
    /\ call = idleCall
    /\ portfolio_items \in [StockCodes -> ItemRows]
    /\ stock_analysis \in AnalysisTables
    /\ portfolios = {}
    /\ item_rows = {}
    /\ BatchOff

\* PortfolioAnalyzer(portfolio).analyze()
Call_analyze ==
    /\ call.fn = "idle"
    /\ LET ret == analyze(portfolio_items, stock_analysis)
       IN  call' = [fn |-> "analyze",
                    args |-> [items |-> portfolio_items, analyses |-> stock_analysis],
                    ret |-> ret, raised |-> (ret = RaisedZeroDivision)]
    /\ UNCHANGED <<passVars, portfolioVars, batchVars>>

NextPortfolio ==
    \/ Call_analyze
    \/ Return

SpecPortfolio == InitPortfolio /\ [][NextPortfolio]_vars

-----------------------------------------------------------------------------
(* The portfolio mutations of the GraphQL schema (config/schema.py).  The     *)
(* Stock table holds the codes of StockCodes.  Quantities and prices are      *)
(* whole numbers, which the decimal columns store as they are.                *)

Owners == {"guest", "alice"}

\* owner_id arguments: an owner, or the empty string.
OwnerArgs == Owners \cup {""}

\* A code no Stock row has.
UnlistedCode == "0000"
CodeArgs == StockCodes \cup {UnlistedCode}

NewQuantities == {2, 5}
NewPrices == {100, 250}

ItemRow(owner, code, quantity, average_price) ==
    [owner |-> owner, stock |-> code, quantity |-> quantity,
     average_price |-> average_price]

\* The rows a filter on portfolio and stock selects.
items_of(rows, owner, code) == {r \in rows : r.owner = owner /\ r.stock = code}

\* Tables that respect unique_together ("portfolio", "stock") and the foreign key
\* to Portfolio: guest holds any of the stocks, alice at most "7203".
InitMutation ==
    /\ PassOff
    /\ call = idleCall
    /\ portfolio_items = [c \in StockCodes |-> NoItem]
    /\ stock_analysis = [c \in StockCodes |-> NoAnalysis]
    /\ portfolios \in SUBSET Owners
    /\ \E held \in SUBSET ((Owners \X StockCodes) \ {<<"alice", "1301">>, <<"alice", "9984">>}) :
           /\ \A h \in held : h[1] \in portfolios
           /\ item_rows = {ItemRow(h[1], h[2], 1, 100) : h \in held}
    /\ BatchOff

\* update_or_create(portfolio=..., stock=..., defaults={...}) on PortfolioItem:
\* a matching row has the defaults set on it and is saved.  With no matching row
\* the defaults go to the create path, which rejects the names investment_thesis
\* and exit_strategy, not fields of PortfolioItem, with FieldError.
update_or_create_item_Accumulate(rows, owner, code, quantity, average_price) ==
    LET matching == items_of(rows, owner, code)
    IN  IF matching = {} THEN [raised |-> "FieldError", rows |-> rows]
        ELSE IF Cardinality(matching) > 1
        THEN [raised |-> "MultipleObjectsReturned", rows |-> rows]
        ELSE LET old == CHOOSE r \in matching : TRUE
             IN  [raised |-> "",
                  rows |-> (rows \ matching)
                           \cup {ItemRow(owner, code, old.quantity + quantity,
                                         average_price)}]

update_or_create_item(rows, owner, code, quantity, average_price) ==
    LET matching == items_of(rows, owner, code)
    IN  IF matching = {} THEN [raised |-> "FieldError", rows |-> rows]
        ELSE IF Cardinality(matching) > 1
        THEN [raised |-> "MultipleObjectsReturned", rows |-> rows]
        ELSE [raised |-> "",
              rows |-> (rows \ matching) \cup {ItemRow(owner, code, quantity, average_price)}]

\* Mutation.add_to_portfolio
add_to_portfolio(owner_id, stock_code, quantity, average_price) ==
    /\ call.fn = "idle"
    /\ LET target_owner == IF owner_id # "" THEN owner_id ELSE "guest"
           args == [owner_id |-> owner_id, stock_code |-> stock_code,
                    quantity |-> quantity, average_price |-> average_price]
           saved == update_or_create_item(item_rows, target_owner, stock_code,
                                          quantity, average_price)
       IN  /\ portfolios' = portfolios \cup {target_owner}
           /\ IF stock_code \notin StockCodes
              THEN /\ call' = [fn |-> "add_to_portfolio", args |-> args,
                               ret |-> "null", raised |-> FALSE]
                   /\ UNCHANGED item_rows
              ELSE /\ item_rows' = saved.rows
                   /\ call' = [fn |-> "add_to_portfolio", args |-> args,
                               ret |-> IF saved.raised = "" THEN target_owner
                                       ELSE saved.raised,
                               raised |-> (saved.raised # "")]
    /\ UNCHANGED <<passVars, portfolio_items, stock_analysis, batchVars>>

\* Mutation.remove_from_portfolio
remove_from_portfolio(owner_id, stock_code) ==
    /\ call.fn = "idle"
    /\ LET args == [owner_id |-> owner_id, stock_code |-> stock_code]
       IN  IF owner_id \notin portfolios
           THEN /\ call' = [fn |-> "remove_from_portfolio", args |-> args,
                            ret |-> "null", raised |-> FALSE]
                /\ UNCHANGED item_rows
           ELSE /\ item_rows' = item_rows \ items_of(item_rows, owner_id, stock_code)
                /\ call' = [fn |-> "remove_from_portfolio", args |-> args,
                            ret |-> owner_id, raised |-> FALSE]
    /\ UNCHANGED <<passVars, portfolio_items, stock_analysis, portfolios, batchVars>>

NextMutation ==
    \/ \E owner_id \in OwnerArgs, stock_code \in CodeArgs,
          quantity \in NewQuantities, average_price \in NewPrices :
           add_to_portfolio(owner_id, stock_code, quantity, average_price)
    \/ \E owner_id \in OwnerArgs, stock_code \in CodeArgs :
           remove_from_portfolio(owner_id, stock_code)
    \/ Return

SpecMutation == InitMutation /\ [][NextMutation]_vars

-----------------------------------------------------------------------------
(* One run of fetch_all: Command.handle submits process_ticker for every     *)
(* ticker to a pool of MAX_WORKERS threads and tallies the results as they   *)
(* complete.  Each database statement is one step.                           *)

MAX_WORKERS == 4

\* The log table before the run: nothing, or one record of an earlier run.
EarlierLogs ==
    {[id \in LogIds |-> NoLog]}
    \cup {[id \in LogIds |->
              IF id = <<0, "1301">>
              THEN [exists |-> TRUE, stock |-> "1301", status |-> st,
                    source |-> "yfinance", message |-> ""]
              ELSE NoLog] : st \in {"SUCCESS", "FAILURE", "FETCHING"}}

InitBatch ==
    /\ PassOff
    /\ call = idleCall
    /\ PortfolioTablesEmpty
    /\ batch_pc = "start"
    /\ futures = [c \in BatchCodes |-> NoFuture]
    /\ fetch_logs \in EarlierLogs
    /\ results = [SUCCESS |-> 0, FAILURE |-> 0]
    /\ stock_rows = BatchCodes

\* A Stock row that may be deleted, in the admin site, after the run has listed
\* its tickers.  It has no log record.
DeletableCode == "8306"

\* handle() up to executor.submit.  With --retry the log table is filtered on
\* executed_at, a field StockFetchLog does not have: the query raises FieldError.
\* Otherwise every Stock code is a ticker of the run.
StartBatch ==
    /\ batch_pc = "start"
    /\ \E retry \in BOOLEAN :
           IF retry
           THEN /\ batch_pc' = "raised"
                /\ UNCHANGED <<futures, stock_rows>>
           ELSE /\ batch_pc' = "running"
                /\ futures' = [c \in BatchCodes |-> [pc |-> "queued"]]
                /\ stock_rows' \in {BatchCodes, BatchCodes \ {DeletableCode}}
    /\ UNCHANGED <<fetch_logs, results, passVars, call, portfolioVars>>

\* StockFetchLog.objects.create(stock=stock, status="FETCHING", source="yfinance")
create_log(logs, id, code) ==
    [logs EXCEPT ![id] = [exists |-> TRUE, stock |-> code, status |-> "FETCHING",
                          source |-> "yfinance", message |-> ""]]

\* A save that writes the status and message to every record of the log's stock.
save_log_AllOfStock(logs, id, new_status, new_message) ==
    [i \in LogIds |->
        IF logs[i].exists /\ logs[i].stock = logs[id].stock
        THEN [logs[i] EXCEPT !.status = new_status, !.message = new_message]
        ELSE logs[i]]

\* log.save() of a process_ticker call's own log object after the assignment
\* of its status and message.
save_log(logs, id, new_status, new_message) ==
    [logs EXCEPT ![id].status = new_status, ![id].message = new_message]

\* A pool thread takes a queued call: Stock.objects.get(code=code), then the
\* FETCHING record; without a Stock row the call returns SKIPPED.
ProcessTickerBegin(code) ==
    /\ batch_pc = "running"
    /\ futures[code].pc = "queued"
    /\ Cardinality({c \in BatchCodes : futures[c].pc = "fetching"}) < MAX_WORKERS
    /\ IF code \in stock_rows
       THEN /\ fetch_logs' = create_log(fetch_logs, <<1, code>>, code)
            /\ futures' = [futures EXCEPT ![code] = [pc |-> "fetching", log |-> <<1, code>>]]
       ELSE /\ futures' = [futures EXCEPT ![code] = [pc |-> "done", status |-> "SKIPPED"]]
            /\ UNCHANGED fetch_logs
    /\ UNCHANGED <<batch_pc, results, stock_rows, passVars, call, portfolioVars>>

\* The ways fetch_data's handle returns without raising: after the AnalysisResult
\* row is written, after the provider's info lookup failed, and with fewer than
\* two saved statements.
FetchDataReturns == {"done", "info error", "insufficient data"}

\* call_command("fetch_data", code) returned: log.status = "SUCCESS"; log.save()
ProcessTickerSuccess(code) ==
    /\ futures[code].pc = "fetching"
    /\ fetch_logs' = save_log(fetch_logs, futures[code].log, "SUCCESS",
                              fetch_logs[futures[code].log].message)
    /\ \E outcome \in FetchDataReturns :
           futures' = [futures EXCEPT ![code] = [pc |-> "done", status |-> "SUCCESS",
                                                 log |-> futures[code].log,
                                                 fetch_data |-> outcome]]
    /\ UNCHANGED <<batch_pc, results, stock_rows, passVars, call, portfolioVars>>

\* call_command raised: log.status = "FAILURE"; log.message = str(e); log.save()
ProcessTickerFailure(code) ==
    /\ futures[code].pc = "fetching"
    /\ fetch_logs' = save_log(fetch_logs, futures[code].log, "FAILURE", "error")
    /\ futures' = [futures EXCEPT ![code] = [pc |-> "done", status |-> "FAILURE",
                                              log |-> futures[code].log,
                                              fetch_data |-> "raised"]]
    /\ UNCHANGED <<batch_pc, results, stock_rows, passVars, call, portfolioVars>>

\* The main thread counting every result, SKIPPED as a FAILURE.
Tally_CountsSkipped(code) ==
    /\ batch_pc = "running"
    /\ futures[code].pc = "done"
    /\ results' = IF futures[code].status \in DOMAIN results
                  THEN [results EXCEPT ![futures[code].status] = @ + 1]
                  ELSE [results EXCEPT !["FAILURE"] = @ + 1]
    /\ futures' = [futures EXCEPT ![code] = [pc |-> "tallied",
                                              status |-> futures[code].status]]
    /\ UNCHANGED <<batch_pc, fetch_logs, stock_rows, passVars, call, portfolioVars>>

\* The main thread takes a completed future from as_completed; its result is
\* the status, the code and the message.
Tally(code) ==
    /\ batch_pc = "running"
    /\ futures[code].pc = "done"
    /\ results' = IF futures[code].status \in DOMAIN results
                  THEN [results EXCEPT ![futures[code].status] = @ + 1]
                  ELSE results
    /\ futures' = [futures EXCEPT ![code] = [pc |-> "tallied",
                                              status |-> futures[code].status]]
    /\ UNCHANGED <<batch_pc, fetch_logs, stock_rows, passVars, call, portfolioVars>>

\* The loop over as_completed has ended: the completion report.
CompleteBatch ==
    /\ batch_pc = "running"
    /\ \A c \in BatchCodes : futures[c].pc = "tallied"
    /\ batch_pc' = "completed"
    /\ UNCHANGED <<futures, fetch_logs, results, stock_rows, passVars, call, portfolioVars>>

NextBatch ==
    \/ StartBatch
    \/ \E code \in BatchCodes : ProcessTickerBegin(code)
    \/ \E code \in BatchCodes : ProcessTickerSuccess(code)
    \/ \E code \in BatchCodes : ProcessTickerFailure(code)
    \/ \E code \in BatchCodes : Tally(code)
    \/ CompleteBatch

SpecBatch == InitBatch /\ [][NextBatch]_vars

\* The run with its threads scheduled: the pool's threads and the main thread
\* keep taking steps, and every call_command returns or raises.  The log table
\* starts empty.
InitBatchFair ==
    /\ InitBatch
    /\ fetch_logs = [id \in LogIds |-> NoLog]

SpecBatchFair == InitBatchFair /\ [][NextBatch]_vars /\ WF_vars(NextBatch)

-----------------------------------------------------------------------------
(* fetch_data.Command.handle from its start: provider lookup, the statement  *)
(* loop, the FinancialMetricsInput assembly, then the analysis pass          *)

MaxYears == 3

\* What the provider's three tables hold for one period end.  None is a cell
\* that is absent or NaN.
ProviderYears ==
    {[revenue |-> Num(120), operating_income |-> Num(15), net_income |-> Num(ni),
      ebit |-> Num(10), interest_expense |-> Num(1), depreciation |-> Num(2),
      total_assets |-> ta, total_equity |-> Num(40), current_assets |-> Num(100),
      current_liabilities |-> Num(50), inventory |-> Num(10),
      retained_earnings |-> Num(50), long_term_debt |-> ltd,
      operating_cf |-> Num(2 * ni), investing_cf |-> Num(-5),
      financing_cf |-> None, capex |-> Num(5)] :
        ta \in {None, Num(100), Num(200)}, ni \in {-10, 10}, ltd \in {None, Num(25)}}

\* stock_data.info
ProviderInfo == [currentPrice |-> Num(1), marketCap |-> Num(160), beta |-> Num(1)]

\* The provider fails on the info lookup, fails on the statement tables, or
\* answers with its period ends in date order.
Providers ==
    {[answer |-> "info error"], [answer |-> "statements error"]}
    \cup {[answer |-> "data", info |-> ProviderInfo, years |-> ys] :
             ys \in UNION {[1..n -> ProviderYears] : n \in 0..MaxYears}}

\* get_val: 0.0 for an absent or NaN cell, float(val) otherwise.
get_val(cell) == IF IsNone(cell) THEN Num(0) ELSE cell

\* The values one pass of the loop reads for a period end.
statement_of(year) == [field \in DOMAIN year |-> get_val(year[field])]

\* The statement loop without its `if total_assets == 0: continue`.
saved_statements_of_KeepAll(years) ==
    [i \in 1..Len(years) |-> statement_of(years[i])]

\* The statement loop: a period end whose total_assets is 0 is skipped, every
\* other one is saved and appended.
saved_statements_of(years) ==
    SelectSeq([i \in 1..Len(years) |-> statement_of(years[i])],
              LAMBDA stmt : ~IsZero(stmt.total_assets))

\* safe(val)
safe(val) == IF IsNone(val) THEN Num(0) ELSE val

\* FinancialMetricsInput(...) of lines 219-248.
metrics_input_of(latest, prev, info, sector) ==
    [revenue |-> safe(latest.revenue),
     operating_income |-> safe(latest.operating_income),
     net_income |-> safe(latest.net_income),
     ebit |-> safe(latest.ebit),
     interest_expense |-> safe(latest.interest_expense),
     depreciation |-> safe(latest.depreciation),
     total_assets |-> safe(latest.total_assets),
     total_equity |-> safe(latest.total_equity),
     current_assets |-> safe(latest.current_assets),
     current_liabilities |-> safe(latest.current_liabilities),
     inventory |-> safe(latest.inventory),
     retained_earnings |-> safe(latest.retained_earnings),
     long_term_debt |-> safe(latest.long_term_debt),
     operating_cf |-> safe(latest.operating_cf),
     investing_cf |-> safe(latest.investing_cf),
     capex |-> safe(latest.capex),
     stock_price |-> info.currentPrice,
     market_cap |-> info.marketCap,
     beta |-> IF Truthy(info.beta) THEN info.beta ELSE Num(1),
     prev_revenue |-> safe(prev.revenue),
     prev_operating_income |-> safe(prev.operating_income),
     prev_net_income |-> safe(prev.net_income),
     prev_total_assets |-> safe(prev.total_assets),
     prev_current_assets |-> safe(prev.current_assets),
     prev_current_liabilities |-> safe(prev.current_liabilities),
     prev_inventory |-> safe(prev.inventory),
     prev_long_term_debt |-> safe(prev.long_term_debt),
     sector |-> sector]

InitFetch ==
    /\ provider \in Providers
    /\ pc = "info"
    /\ saved_statements = <<>>
    /\ first_run = NoRun
    /\ metrics_input = DefaultInput
    /\ f_score = 0 /\ f_reasons = <<>>
    /\ z_score = None /\ accruals = None /\ gross_prof = None /\ roiic = None
    /\ implied_g_fcf = None /\ implied_g_rev = None /\ actual_g_rev = None /\ gap = None
    /\ status = "" /\ is_good_buy = FALSE /\ ai_summary_parts = <<>>
    /\ has_fcf = FALSE /\ z_zone = "" /\ state = "" /\ expectation = ""
    /\ risk_level = "" /\ risk_factors = <<>>
    /\ final_label = ""
    /\ raised = FALSE
    /\ analysis_result = NoRow
    /\ call = idleCall
    /\ PortfolioTablesEmpty
    /\ BatchOff

\* `info = stock_data.info`; on an exception the command writes the error and
\* returns.
FetchInfo ==
    /\ pc = "info"
    /\ pc' = IF provider.answer = "info error" THEN "info error" ELSE "statements"
    /\ UNCHANGED <<metrics_input, f_score, f_reasons, z_score, accruals, gross_prof, roiic,
                   implied_g_fcf, implied_g_rev, actual_g_rev, gap, status, is_good_buy,
                   ai_summary_parts, has_fcf, z_zone, state, expectation, risk_level,
                   risk_factors, final_label, raised, analysis_result, call,
                   fetchVars, portfolioVars, batchVars>>

\* The statement tables are read (an exception of the provider escapes), the loop
\* saves the usable period ends, and with fewer than two of them the command
\* returns; otherwise the FinancialMetricsInput is built from the last two.
SaveStatements ==
    /\ pc = "statements"
    /\ IF provider.answer = "statements error"
       THEN /\ raised' = TRUE
            /\ pc' = "raised"
            /\ UNCHANGED <<saved_statements, metrics_input>>
       ELSE LET saved == saved_statements_of(provider.years)
            IN  /\ saved_statements' = saved
                /\ UNCHANGED raised
                /\ IF Len(saved) < 2
                   THEN /\ pc' = "insufficient data"
                        /\ UNCHANGED metrics_input
                   ELSE /\ metrics_input' =
                               metrics_input_of(saved[Len(saved)], saved[Len(saved) - 1],
                                                provider.info, Unknown)
                        /\ pc' = "metrics"
    /\ UNCHANGED <<f_score, f_reasons, z_score, accruals, gross_prof, roiic,
                   implied_g_fcf, implied_g_rev, actual_g_rev, gap, status, is_good_buy,
                   ai_summary_parts, has_fcf, z_zone, state, expectation, risk_level,
                   risk_factors, final_label, analysis_result, provider, first_run,
                   call, portfolioVars, batchVars>>

NextFetch ==
    \/ FetchInfo
    \/ SaveStatements
    \/ ComputeMetrics
    \/ LegacyStatus
    \/ Diagnose
    \/ Verdict
    \/ Save

SpecFetch == InitFetch /\ [][NextFetch]_vars

-----------------------------------------------------------------------------
(* Properties *)

\* The cascade has run to its end without raising.
Labelled == pc \in {"save", "done"}

\* C1: in the analysis pass, whenever risk_level is "Critical" the final label is
\* "Avoid" and is_good_buy is false, in the pass's variables and in the stored row.
C1_CriticalIsAvoid ==
    /\ (Labelled /\ risk_level = "Critical") => (final_label = "Avoid" /\ ~is_good_buy)
    /\ (analysis_result.saved /\ analysis_result.risk_level = "Critical")
           => (analysis_result.status = "Avoid" /\ ~analysis_result.is_good_buy)

\* A Critical row of a company that has free cash flow, an F-score of at least 6
\* and an underestimated expectation has been stored.
C1_Witness ==
    /\ analysis_result.saved
    /\ analysis_result.risk_level = "Critical"
    /\ analysis_result.expectation_structure = "Underestimated"
    /\ has_fcf
    /\ f_score >= 6

\* The seven rules in the stated order, as conditions and as labels.
C2_Conditions(risk, st, exp) ==
    << risk = "Critical",
       st = "Deteriorating",
       st \in {"Cash Generator", "High Growth"} /\ exp = "Underestimated",
       exp \in {"Overheated", "Optimistic"},
       st = "High Growth" /\ exp = "Single Engine" /\ risk = "Low",
       st \in {"Cash Generator", "High Growth"} /\ risk # "High",
       TRUE >>

C2_Labels == <<"Avoid", "Sell", "Strong Buy", "Watch", "Buy (Spec)", "Buy", "Hold">>

C2_FirstMatch(risk, st, exp) ==
    LET conds == C2_Conditions(risk, st, exp)
    IN  C2_Labels[CHOOSE i \in 1..7 : conds[i] /\ \A j \in 1..(i - 1) : ~conds[j]]

\* C2: the cascade never raises, and the final label (and the stored status) is the
\* label of the first of the seven rules whose condition holds, hence one of the
\* seven labels; the cascade agrees with the first matching rule on every
\* combination of risk level, state and expectation structure, reached or not.
C2_FirstMatchWins ==
    /\ ~raised
    /\ Labelled => final_label = C2_FirstMatch(risk_level, state, expectation)
    /\ pc = "verdict" =>
           \A risk \in {"Low", "Medium", "High", "Critical"} :
             \A st \in {"Financial Distress", "Deteriorating", "Cash Generator",
                        "High Growth", "Neutral"} :
               \A exp \in {"Single Engine", "Overheated", "Underestimated",
                           "Optimistic", "Reasonable"} :
                 RuleLabel(VerdictRule(risk, st, exp)) = C2_FirstMatch(risk, st, exp)
    /\ analysis_result.saved =>
           /\ analysis_result.status =
                  C2_FirstMatch(analysis_result.risk_level, analysis_result.state,
                                analysis_result.expectation_structure)
           /\ analysis_result.status \in {C2_Labels[i] : i \in 1..7}

\* A stored row where rules 5 and 6 both match and rule 5, the earlier one, won.
C2_Witness ==
    /\ analysis_result.saved
    /\ analysis_result.state = "High Growth"
    /\ analysis_result.expectation_structure = "Single Engine"
    /\ analysis_result.risk_level = "Low"
    /\ analysis_result.status = "Buy (Spec)"

\* C3: diagnose_corporate_state returns "Financial Distress" for zone "distress",
\* else "Deteriorating" for f_score <= 3, else for f_score >= 5 "Cash Generator"
\* with has_fcf and "High Growth" without, else (f_score = 4) "Neutral".
C3_CorporateState ==
    call.fn = "diagnose_corporate_state" =>
        LET fs == call.args[1]
            zone == call.args[2]
            fcf == call.args[3]
        IN  /\ zone = "distress" => call.ret = "Financial Distress"
            /\ (zone # "distress" /\ fs <= 3) => call.ret = "Deteriorating"
            /\ (zone # "distress" /\ fs >= 5 /\ fcf) => call.ret = "Cash Generator"
            /\ (zone # "distress" /\ fs >= 5 /\ ~fcf) => call.ret = "High Growth"
            /\ (zone # "distress" /\ fs = 4) => call.ret = "Neutral"
            /\ ~call.raised

\* diagnose_corporate_state(4, "safe", True) has returned "Neutral".
C3_Witness ==
    /\ call.fn = "diagnose_corporate_state"
    /\ call.args = <<4, "safe", TRUE>>
    /\ call.ret = "Neutral"

\* An integer-valued argument exceeds / is below the integer k; None does neither.
C4_Above(x, k) == ~IsNone(x) /\ x.bn = 0 /\ x.n > k * x.d
C4_Below(x, k) == ~IsNone(x) /\ x.bn = 0 /\ x.n < k * x.d

\* C4: diagnose_expectation returns "Single Engine" exactly when has_fcf is false
\* and the implied revenue growth is non-null and > 25, whatever the gap; otherwise
\* "Overheated" for gap > 20, "Underestimated" for gap < -10, "Optimistic" for
\* 10 < gap <= 20 and "Reasonable" for every other gap, None included; it never
\* raises.
C4_Expectation ==
    call.fn = "diagnose_expectation" =>
        LET g == call.args[1]
            implied == call.args[2]
            fcf == call.args[3]
            single == ~fcf /\ C4_Above(implied, 25)
        IN  /\ ~call.raised
            /\ single <=> call.ret = "Single Engine"
            /\ ~single =>
                   /\ C4_Above(g, 20) <=> call.ret = "Overheated"
                   /\ C4_Below(g, -10) <=> call.ret = "Underestimated"
                   /\ (C4_Above(g, 10) /\ ~C4_Above(g, 20)) <=> call.ret = "Optimistic"
                   /\ (~C4_Above(g, 10) /\ ~C4_Below(g, -10)) <=> call.ret = "Reasonable"

\* diagnose_expectation(21, 26, False) has returned "Single Engine", not "Overheated".
C4_Witness ==
    /\ call.fn = "diagnose_expectation"
    /\ call.args = <<Num(21), Num(26), FALSE>>
    /\ call.ret = "Single Engine"

\* C5: assess_risks returns "Critical" exactly for zone "distress", "High" exactly
\* for another zone with f_score <= 3, "Medium" exactly when neither holds and
\* accruals > 0.15, else "Low"; the factors are the triggered reasons in the order
\* Bankruptcy Risk, Weak Fundamentals, Low Earnings Quality; None accruals add none.
C5_RiskLevel ==
    call.fn = "assess_risks" =>
        LET zone == call.args[1]
            fs == call.args[2]
            accr == call.args[3]
            distress == zone = "distress"
            weak == fs <= 3
            lowq == ~IsNone(accr) /\ 100 * accr.n > 15 * accr.d
        IN  /\ distress <=> call.ret.level = "Critical"
            /\ (~distress /\ weak) <=> call.ret.level = "High"
            /\ (~distress /\ ~weak /\ lowq) <=> call.ret.level = "Medium"
            /\ (~distress /\ ~weak /\ ~lowq) <=> call.ret.level = "Low"
            /\ call.ret.risks = (IF distress THEN <<"Bankruptcy Risk">> ELSE <<>>)
                                \o (IF weak THEN <<"Weak Fundamentals">> ELSE <<>>)
                                \o (IF lowq THEN <<"Low Earnings Quality">> ELSE <<>>)
            /\ ~call.raised

\* assess_risks("distress", 2, 0.16) has returned Critical with all three factors.
C5_Witness ==
    /\ call.fn = "assess_risks"
    /\ call.args = <<"distress", 2, Rat(16, 100)>>
    /\ call.ret.level = "Critical"
    /\ Len(call.ret.risks) = 3

\* C6: the has_fcf flag handed to the diagnosis functions is true exactly when
\* operating_cf + investing_cf > 0.
C6_HasFcfIsPositiveFcf ==
    pc \in {"verdict", "save", "done"} =>
        (has_fcf <=> metrics_input.operating_cf.n + metrics_input.investing_cf.n > 0)

\* C7: every non-null Z-score below 1.81 gives zone "distress", state "Financial
\* Distress", risk_level "Critical" and the final label "Avoid".
C7_LowZIsDistress ==
    (Labelled /\ ~IsNone(z_score) /\ 100 * z_score.n < 181 * z_score.d) =>
        /\ z_zone = "distress"
        /\ state = "Financial Distress"
        /\ risk_level = "Critical"
        /\ final_label = "Avoid"

\* C8: classify_altman_zone returns "distress" for z < 1.81, "grey" for
\* 1.81 <= z < 2.99 and "safe" for z >= 2.99.
C8_ZoneSteps ==
    call.fn = "classify_altman_zone" =>
        LET z == call.args
        IN  /\ 100 * z.n < 181 * z.d <=> call.ret = "distress"
            /\ (100 * z.n >= 181 * z.d /\ 100 * z.n < 299 * z.d) <=> call.ret = "grey"
            /\ 100 * z.n >= 299 * z.d <=> call.ret = "safe"

\* classify_altman_zone(1.81) has returned "grey".
C8_Witness ==
    /\ call.fn = "classify_altman_zone"
    /\ call.args = Rat(181, 100)
    /\ call.ret = "grey"

\* The methods that map a FinancialMetricsInput to a ratio or a score.
C9_RatioMethods ==
    {"calculate_altman_z_score", "calculate_interest_coverage",
     "calculate_accruals_ratio", "calculate_earnings_quality", "calculate_delta_noa",
     "calculate_inventory_quality", "calculate_gross_profitability", "calculate_cbop",
     "calculate_roiic", "calculate_reinvestment_rate", "calculate_dupont_breakdown",
     "calculate_implied_growth_rate", "calculate_equity_duration_proxy",
     "calculate_piotroski_f_score", "calculate_implied_revenue_growth",
     "calculate_actual_revenue_growth"}

\* C9: on an input whose prior-period fields are all present (zero allowed), no
\* ratio method raises a division-by-zero error.
C9_NoZeroDivision ==
    (call.fn \in C9_RatioMethods /\ ~IsNone(call.args.prev_total_assets)) => ~call.raised

\* C10: calculate_piotroski_f_score returns a score in 0..9 equal to the number of
\* its reasons whenever prev_total_assets is present, and (0, ["insufficient data"])
\* whenever it is absent.
C10_FScoreContract ==
    call.fn = "calculate_piotroski_f_score" =>
        IF IsNone(call.args.prev_total_assets)
        THEN /\ ~call.raised
             /\ call.ret.score = 0
             /\ call.ret.reasons = <<"insufficient data">>
        ELSE /\ ~call.raised
             /\ call.ret.score \in 0..9
             /\ call.ret.score = Len(call.ret.reasons)

\* C11: calculate_equity_duration_proxy returns None exactly when the FCF-implied
\* growth is None, 50.0 whenever discount_rate <= g/100 and 1/(discount_rate - g/100)
\* otherwise; the non-null result is positive and never exceeds 50.0.
C11_EquityDuration ==
    call.fn = "calculate_equity_duration_proxy" =>
        LET g == calculate_implied_growth_rate(call.args)
        IN  /\ ~call.raised
            /\ IsNone(call.ret) <=> IsNone(g)
            /\ ~IsNone(g) =>
                   /\ call.ret = IF Le(discount_rate, Div(g, Num(100))) THEN Num(50)
                                 ELSE Div(Num(1), Sub(discount_rate, Div(g, Num(100))))
                   /\ Gt(call.ret, Num(0))
                   /\ Le(call.ret, Num(50))

\* C12: every AnalysisResult row written by the analysis pass has tag_single_engine
\* true if and only if its expectation_structure is "Single Engine".
C12_SingleEngineTag ==
    analysis_result.saved =>
        (analysis_result.tag_single_engine
            <=> analysis_result.expectation_structure = "Single Engine")

\* The report of an analyze call that did not take the empty-result path.
Reported == call.fn = "analyze" /\ ~call.raised /\ call.ret # empty_result

\* The total market value of the held items whose stock has an analysis.
C13_TotalValue ==
    SumSeq([i \in DOMAIN StockOrder |->
               LET item == call.args.items[StockOrder[i]]
                   analysis == call.args.analyses[StockOrder[i]]
               IN  IF item.held /\ analysis.exists /\ Truthy(analysis.stock_price)
                   THEN Mul(analysis.stock_price, Num(item.quantity))
                   ELSE Num(0)])

\* C13: analyze counts every weighted holding under exactly one category, and for
\* total_value > 0 the five category_exposure values sum to 100, the sum of the
\* holdings' weights.
C13_CategoriesPartition ==
    (Reported /\ Gt(C13_TotalValue, Num(0))) =>
        LET r == call.ret
            Weight(i) == Div(Mul(r.holdings[i].market_value, Num(100)), r.total_value)
            Of(c) == {i \in DOMAIN r.holdings : assigned_cat(r.holdings[i].analysis) = c}
            SumOver(c) ==
                SumSeq([i \in DOMAIN r.holdings |-> IF i \in Of(c) THEN Weight(i) ELSE Num(0)])
        IN  /\ DOMAIN r.category_exposure = Categories
            /\ \A i \in DOMAIN r.holdings : Cardinality({c \in Categories : i \in Of(c)}) = 1
            /\ \A c \in Categories : r.category_exposure[c] = SumOver(c)
            /\ Add(Add(Add(Add(r.category_exposure["Safety"], r.category_exposure["Quality"]),
                           r.category_exposure["Speculative"]),
                       r.category_exposure["Risk"]),
                   r.category_exposure["Neutral"]) = Num(100)
            /\ SumSeq([i \in DOMAIN r.holdings |-> Weight(i)]) = Num(100)

\* A report on three holdings of positive value, one of which carries tags of two
\* categories, with the exposure spread over three categories.
C13_Witness ==
    /\ Reported
    /\ Gt(C13_TotalValue, Num(0))
    /\ Len(call.ret.holdings) = 3
    /\ \A i \in 1..3 : Gt(call.ret.holdings[i].market_value, Num(0))
    /\ call.ret.holdings[1].analysis.tag_zombie
    /\ call.ret.holdings[1].analysis.tag_safety_shield
    /\ Cardinality({c \in Categories : Gt(call.ret.category_exposure[c], Num(0))}) = 3

\* C14: in every report on a portfolio of non-zero total value each of the eleven
\* tag_exposure values lies within [0, 100].
C14_TagExposureInRange ==
    Reported =>
        /\ DOMAIN call.ret.tag_exposure = Tags
        /\ \A t \in Tags : /\ ~Lt(call.ret.tag_exposure[t], Num(0))
                           /\ ~Gt(call.ret.tag_exposure[t], Num(100))

\* C15: the health_score analyze returns is an integer within [0, 100], on the
\* empty-result path as well.
C15_HealthScoreInRange ==
    call.fn = "analyze" => (~call.raised /\ call.ret.health_score \in 0..100)

\* A report whose Risk exposure alone puts the raw score below 0.
C15_Witness ==
    /\ Reported
    /\ Gt(Mul(call.ret.category_exposure["Risk"], Rat(15, 10)), Num(80))
    /\ call.ret.health_score = 0

\* C16: when the total market value is zero analyze returns the fixed empty
\* report (no exposure, health_score 0, the "portfolio is empty" message) and
\* neither raises nor divides.
C16_EmptyReport ==
    (call.fn = "analyze" /\ IsZero(C13_TotalValue)) =>
        /\ ~call.raised
        /\ call.ret = empty_result
        /\ call.ret.health_score = 0
        /\ call.ret.diagnosis_summary = "portfolio is empty"
        /\ \A c \in DOMAIN call.ret.category_exposure : IsZero(call.ret.category_exposure[c])
        /\ \A t \in DOMAIN call.ret.tag_exposure : IsZero(call.ret.tag_exposure[t])

\* The empty report for a portfolio that holds a stock with an analysis whose
\* price is null or zero.
C16_Witness ==
    /\ call.fn = "analyze"
    /\ call.ret = empty_result
    /\ \E c \in StockCodes :
           /\ call.args.items[c].held
           /\ call.args.analyses[c].exists
           /\ ~Truthy(call.args.analyses[c].stock_price)

\* The category the fixed priority Risk > Speculative > Quality > Safety > Neutral
\* gives an analysis.
C17_Priority(a) ==
    LET first == <<"Risk", "Speculative", "Quality", "Safety">>
        has == [c \in {"Risk", "Speculative", "Quality", "Safety"} |->
                   CASE c = "Risk" -> a.tag_zombie \/ a.tag_fragile \/ a.tag_accounting_risk
                     [] c = "Speculative" ->
                            a.tag_single_engine \/ a.tag_high_volatility \/ a.tag_turnaround
                     [] c = "Quality" -> a.tag_quality_growth
                     [] c = "Safety" ->
                            a.tag_safety_shield \/ a.tag_institutional \/ a.tag_cash_cow]
        hits == {i \in 1..4 : has[first[i]]}
    IN  IF hits = {} THEN "Neutral"
        ELSE first[CHOOSE i \in hits : \A j \in hits : i <= j]

\* C17: the category of a holding is the first of Risk, Speculative, Quality,
\* Safety one of whose tags is set, and Neutral when none is; a Risk tag beats a
\* Safety tag, and tag_silent_improver alone gives Neutral.
C17_CategoryPriority ==
    call.fn = "assigned_cat" =>
        /\ call.ret = C17_Priority(call.args)
        /\ (call.args.tag_zombie /\ call.args.tag_safety_shield) => call.ret = "Risk"
        /\ (\A t \in Tags : call.args[t] <=> t = "tag_silent_improver")
               => call.ret = "Neutral"

\* An analysis tagged both zombie and cash cow has been categorised as Risk.
C17_Witness ==
    /\ call.fn = "assigned_cat"
    /\ call.args.tag_zombie
    /\ call.args.tag_cash_cow
    /\ call.ret = "Risk"

\* C18: each narrative's dependency_score is min(100, weight x sum of tag_exposure
\* over its tags) and lies within [0, 100]; the list is sorted by score,
\* descending, ties in the order LowRate, HighGrowth, EconomicExpansion,
\* QualityPreference.
C18_NarrativeDependency ==
    Reported =>
        LET list == call.ret.narrative_analysis
            Index(key) == CHOOSE i \in DOMAIN NARRATIVES : NARRATIVES[i].key = key
            Raw(i) == Mul(NARRATIVES[i].weight,
                          SumSeq([k \in DOMAIN NARRATIVES[i].tags |->
                                     call.ret.tag_exposure[NARRATIVES[i].tags[k]]]))
        IN  /\ Len(list) = Len(NARRATIVES)
            /\ {list[i].key : i \in DOMAIN list} = {NARRATIVES[i].key : i \in DOMAIN NARRATIVES}
            /\ \A i \in DOMAIN list :
                   LET raw == Raw(Index(list[i].key))
                   IN  /\ list[i].dependency_score =
                              IF Gt(raw, Num(100)) THEN Num(100) ELSE raw
                       /\ ~Lt(list[i].dependency_score, Num(0))
                       /\ ~Gt(list[i].dependency_score, Num(100))
            /\ \A i, j \in DOMAIN list :
                   i < j => \/ Gt(list[i].dependency_score, list[j].dependency_score)
                            \/ /\ list[i].dependency_score = list[j].dependency_score
                               /\ Index(list[i].key) < Index(list[j].key)

\* C19: for a non-empty portfolio health_score is the integer part of
\* clamp(80 - 1.5 Risk - 0.5 max(0, Speculative - 30) + 5 [Safety > 50]
\* + 5 [Quality > 30], 0, 100), the comparisons being strict.
C19_HealthScoreFormula ==
    Reported =>
        LET e == call.ret.category_exposure
            excess == IF Gt(e["Speculative"], Num(30)) THEN Sub(e["Speculative"], Num(30))
                      ELSE Num(0)
            bonus == (IF Gt(e["Safety"], Num(50)) THEN 5 ELSE 0)
                     + (IF Gt(e["Quality"], Num(30)) THEN 5 ELSE 0)
            raw == Sub(Sub(Num(80 + bonus), Mul(Rat(3, 2), e["Risk"])),
                       Mul(Rat(1, 2), excess))
            clamped == IF Lt(raw, Num(0)) THEN Num(0)
                       ELSE IF Gt(raw, Num(100)) THEN Num(100) ELSE raw
        IN  /\ call.ret.health_score * clamped.d <= clamped.n
            /\ clamped.n < (call.ret.health_score + 1) * clamped.d

\* Reports with Safety exactly 50 and with Quality exactly 30: no bonus.
C19_Witness ==
    /\ Reported
    /\ call.ret.category_exposure["Quality"] = Num(30)
    /\ call.ret.category_exposure["Safety"] = Num(70)
    /\ call.ret.health_score = 85

\* C20: under any interleaving of the process_ticker calls, a StockFetchLog record
\* is created with status FETCHING, is never deleted, and changes status only
\* from FETCHING to SUCCESS or FAILURE, by the save of the one call that created
\* it and holds it; a SUCCESS or FAILURE record never changes again.
C20_LogTransitions ==
    [][\A id \in LogIds :
          /\ fetch_logs[id].exists => fetch_logs'[id].exists
          /\ (~fetch_logs[id].exists /\ fetch_logs'[id].exists)
                 => /\ fetch_logs'[id].status = "FETCHING"
                    /\ \E c \in BatchCodes :
                           /\ futures[c].pc = "queued"
                           /\ futures'[c].pc = "fetching"
                           /\ futures'[c].log = id
          /\ (fetch_logs[id].exists /\ fetch_logs'[id] # fetch_logs[id])
                 => /\ fetch_logs[id].status = "FETCHING"
                    /\ fetch_logs'[id].status \in {"SUCCESS", "FAILURE"}
                    /\ fetch_logs'[id].stock = fetch_logs[id].stock
                    /\ \E c \in BatchCodes :
                           /\ futures[c].pc = "fetching"
                           /\ futures[c].log = id
                           /\ id = <<1, c>>
                           /\ futures'[c].pc = "done"
                           /\ \A other \in BatchCodes \ {c} :
                                  futures[other].pc = "fetching" => futures[other].log # id
      ]_vars

\* Records of one stock from an earlier run (SUCCESS) and from this run (FAILURE),
\* next to a SUCCESS record and a record still FETCHING.
C20_Witness ==
    /\ fetch_logs[<<0, "1301">>].exists
    /\ fetch_logs[<<0, "1301">>].status = "SUCCESS"
    /\ fetch_logs[<<1, "1301">>].exists
    /\ fetch_logs[<<1, "1301">>].status = "FAILURE"
    /\ \E a, b \in BatchCodes :
           /\ fetch_logs[<<1, a>>].exists /\ fetch_logs[<<1, a>>].status = "SUCCESS"
           /\ fetch_logs[<<1, b>>].exists /\ fetch_logs[<<1, b>>].status = "FETCHING"

\* C25: the stored is_good_buy is true only when the stored final label is
\* "Strong Buy", "Buy (Spec)" or "Buy"; a row labelled "Avoid", "Sell", "Watch" or
\* "Hold" has is_good_buy false.
C25_GoodBuyOnlyOnBuyLabels ==
    analysis_result.saved =>
        /\ analysis_result.is_good_buy
               => analysis_result.status \in {"Strong Buy", "Buy (Spec)", "Buy"}
        /\ analysis_result.status \in {"Avoid", "Sell", "Watch", "Hold"}
               => ~analysis_result.is_good_buy

\* The stored rows whose state and risk level agree as C26 says.
C26_StateMatchesRisk(row) ==
    /\ row.state = "Financial Distress" <=> row.risk_level = "Critical"
    /\ row.state = "Deteriorating" => row.risk_level = "High"
    /\ row.state \in {"Cash Generator", "High Growth"} => row.risk_level \in {"Low", "Medium"}

\* C26: in every analysis, state is "Financial Distress" iff risk_level is
\* "Critical", state "Deteriorating" implies risk_level "High", and state "Cash
\* Generator" or "High Growth" implies risk_level "Low" or "Medium"; so a pass that
\* reaches rule 6 with such a state is never stopped by its risk guard, and the
\* final label "Hold" is given only to state "Neutral".
C26_StateRiskConsistent ==
    /\ pc \in {"verdict", "save", "done"} =>
           /\ C26_StateMatchesRisk([state |-> state, risk_level |-> risk_level])
           /\ (/\ state \in {"Cash Generator", "High Growth"}
               /\ VerdictRule(risk_level, state, expectation) >= 6)
                  => VerdictRule(risk_level, state, expectation) = 6
    /\ Labelled /\ final_label = "Hold" => state = "Neutral"
    /\ analysis_result.saved =>
           /\ C26_StateMatchesRisk(analysis_result)
           /\ analysis_result.status = "Hold" => analysis_result.state = "Neutral"

\* A "Hold" row of a Neutral company with risk level "High" was stored: the one
\* state for which the risk level is not fixed by the state.
C26_Witness ==
    /\ analysis_result.saved
    /\ analysis_result.status = "Hold"
    /\ analysis_result.state = "Neutral"
    /\ analysis_result.risk_level \in {"Medium", "High"}

\* C27: the earlier status block does not reach the stored label or summary: the
\* stored label is the one the cascade gives for the stored risk level, state and
\* expectation structure, whatever status the earlier block chose, and the stored
\* summary is the single fragment of the rule that fired.
C27_LegacyBlockHasNoEffect ==
    /\ Labelled =>
           /\ final_label = RuleLabel(VerdictRule(risk_level, state, expectation))
           /\ ai_summary_parts = <<RuleFragment(VerdictRule(risk_level, state, expectation))>>
    /\ analysis_result.saved =>
           LET rule == VerdictRule(analysis_result.risk_level, analysis_result.state,
                                   analysis_result.expectation_structure)
           IN  /\ analysis_result.status = RuleLabel(rule)
               /\ analysis_result.ai_summary = <<RuleFragment(rule)>>
               /\ Len(analysis_result.ai_summary) = 1

\* A row was stored whose label differs from the status of the earlier block,
\* which had left fragments of its own.
C27_Witness ==
    /\ analysis_result.saved
    /\ status = "Strong Buy"
    /\ analysis_result.status = "Watch"
    /\ z_zone = "grey"

\* Every item that enters the report has a non-negative market value.
C30_NonNegativeHoldings ==
    \A c \in StockCodes :
        LET item == call.args.items[c]
            analysis == call.args.analyses[c]
        IN  (item.held /\ analysis.exists /\ ~IsNone(analysis.stock_price))
                => ~Lt(Mul(analysis.stock_price, Num(item.quantity)), Num(0))

\* C30: for a portfolio whose holdings all have non-negative market value,
\* health_score is at most 90, and it is 90 exactly when Risk is 0, Speculative is
\* at most 30, Safety is above 50 and Quality is above 30.
C30_HealthScoreAtMostNinety ==
    (Reported /\ C30_NonNegativeHoldings) =>
        LET e == call.ret.category_exposure
        IN  /\ call.ret.health_score <= 90
            /\ call.ret.health_score = 90
                   <=> /\ IsZero(e["Risk"])
                       /\ ~Gt(e["Speculative"], Num(30))
                       /\ Gt(e["Safety"], Num(50))
                       /\ Gt(e["Quality"], Num(30))

\* A report with health_score 90: Safety 700/13 and Quality 600/13.
C30_Witness ==
    /\ Reported
    /\ C30_NonNegativeHoldings
    /\ call.ret.health_score = 90
    /\ call.ret.category_exposure["Safety"] = Rat(700, 13)
    /\ call.ret.category_exposure["Quality"] = Rat(600, 13)

C28_PassEntered ==
    \/ pc \in {"metrics", "status", "diagnose", "verdict", "save", "done"}
    \/ pc = "raised" /\ provider.answer = "data"

C28_PriorFields ==
    {"prev_revenue", "prev_operating_income", "prev_net_income", "prev_total_assets",
     "prev_current_assets", "prev_current_liabilities", "prev_inventory",
     "prev_long_term_debt"}

\* C28: whenever fetch_data enters the analysis pass, at least two statements were
\* saved, each with non-zero total_assets, and every prior-period field of the
\* FinancialMetricsInput is non-null with prev_total_assets non-zero; so the
\* F-score is at least 1, is never the "insufficient data" result, and its
\* computation raises no ZeroDivisionError.
C28_PriorPeriodPresent ==
    /\ C28_PassEntered =>
           /\ Len(saved_statements) >= 2
           /\ \A i \in 1..Len(saved_statements) :
                  /\ ~IsNone(saved_statements[i].total_assets)
                  /\ ~IsZero(saved_statements[i].total_assets)
           /\ \A field \in C28_PriorFields : ~IsNone(metrics_input[field])
           /\ ~IsZero(metrics_input.prev_total_assets)
           /\ ~calculate_piotroski_f_score(metrics_input).raised
           /\ calculate_piotroski_f_score(metrics_input).reasons # <<"insufficient data">>
    /\ (C28_PassEntered /\ pc # "metrics") =>
           /\ pc # "raised"
           /\ f_score >= 1
           /\ f_reasons # <<"insufficient data">>
    /\ analysis_result.saved => analysis_result.f_score >= 1
    /\ raised => provider.answer = "statements error"

\* A row with f_score 1 was stored in a run that skipped one of three period
\* ends and took a prior period with no long-term debt cell.
C28_Witness ==
    /\ analysis_result.saved
    /\ analysis_result.f_score = 1
    /\ Len(provider.years) = 3
    /\ Len(saved_statements) = 2
    /\ IsNone(provider.years[1].long_term_debt)
    /\ IsNone(provider.years[2].total_assets)

\* No portfolio has two items of one stock.
C22_AtMostOne(rows) ==
    \A owner \in Owners, code \in StockCodes : Cardinality(items_of(rows, owner, code)) <= 1

\* The rows other than the item of this portfolio and stock.
C22_Others(rows, owner, code) == rows \ items_of(rows, owner, code)

C29_UnknownCodeChangesNothing ==
    [][(call.fn = "idle" /\ call'.fn = "add_to_portfolio"
           /\ call'.args.stock_code \notin StockCodes) =>
              /\ call'.ret = "null"
              /\ portfolios' = portfolios
              /\ item_rows' = item_rows
      ]_vars

\* The tickers of the run whose Stock row process_ticker found.
C23_Found == BatchCodes \cap stock_rows

C24_SuccessMeansAnalysed ==
    \A c \in BatchCodes :
        (futures[c].pc = "done" /\ futures[c].status # "SKIPPED") =>
            /\ fetch_logs[futures[c].log].status = "SUCCESS"
                   => futures[c].fetch_data = "done"
            /\ futures[c].fetch_data \in {"info error", "insufficient data"}
                   => fetch_logs[futures[c].log].status = "FAILURE"

====
